---- MODULE Spec2Model ----
(***************************************************************************)
(* A model of pyEDHREC-2.0: complete_deck.py, find_best_commanders.py and  *)
(* add_collection_tags.py.                                                 *)
(*                                                                         *)
(* Conventions                                                             *)
(*   - A Python str is a sequence of one-character strings, so that        *)
(*     lower(), upper() and substring tests are computed, not assumed.     *)
(*   - A JSON value is a record [t, n, s, keys, kids]; t is the Python     *)
(*     type after json parsing ("null", "bool", "num", "str", "list",      *)
(*     "dict").  A dict keeps its keys in insertion order (keys[i] maps to *)
(*     kids[i]).  Dict keys are the fixed field names of the payloads and  *)
(*     are written as TLA+ strings.                                        *)
(*   - A JSON number is kept in hundredths (fixed point, scale 100):       *)
(*     0.35 is 35, an inclusion count of 3 is 300.  Arithmetic is exact;   *)
(*     binary floating-point rounding is not modelled.                     *)
(*   - A Python function that can raise returns a record with a field      *)
(*     "raised"; an exception that escapes a function is raised = TRUE.    *)
(***************************************************************************)
EXTENDS Integers, Sequences, FiniteSets, TLC

VARIABLES
    \* ---- the extraction operations applied to one payload
    xdata,      \* the parsed JSON payload handed to the operation
    xtarget,    \* the card name handed to the operation
    xop,        \* the operation that ran ("none" before it ran)
    xout,       \* its outcome: [raised, val]
    \* ---- the color-legality filter applied to one candidate
    cname,      \* the commander's name
    cresp,      \* the outcome of the fetch of the commander's page
    cfound,     \* get_commander_colors' local colors after find_color_identity
    cvia,       \* where commander_colors came from ("none" before it is known)
    ccolors,    \* commander_colors: None or a list
    clookup,    \* the outcome of the Scryfall lookup for the candidate
    clegal,     \* what card_is_legal_in_colors returned: [raised, val]
    cpc,        \* "start", "colors" (commander_colors known), "done"
    \* ---- analyze_and_complete_deck: its arguments and the remote world
    deck,               \* [commander, cards]: the parsed partial deck
    inventory,          \* load_inventory(): entries [key, name] in row order
    commander_colors,   \* None or a list of colors
    avg_resp,           \* the outcome of the average-deck fetch
    syn_resps,          \* the outcome of the i-th synergy fetch
    lookups,            \* the outcome of the Scryfall lookup, per card key
    \* ---- analyze_and_complete_deck: its locals
    pc,                 \* "avg", "syn", "check", "done", "raised" ("idle": not run)
    edhrec_cards,       \* get_average_and_budget_deck's dict
    all_synergies,      \* entries [key, score, scryfall]
    idx,                \* the seed the synergy loop is at
    cards_to_check,     \* entries [source_type, key]
    key_cards_missing,
    ci,                 \* the candidate the color loop is at
    suggestions,
    result,             \* the returned record
    \* ---- the inventory file and the indexes built from it
    irows,      \* the rows of the inventory file: [name, quantity, source]
    ipc,        \* "start", "loaded" ("idle": not run)
    inv_map_cd, \* complete_deck.load_inventory(): [key, name, quantity, collections]
    inv_unique, \* find_best_commanders: [name_lower, quantity, name], by name_lower
    inv_map,    \* find_best_commanders: [key, quantity]
    inv_source_map, \* find_best_commanders: [key, sources], the joined labels
    \* ---- find_best_commanders.analyze_inventory
    a_inv,      \* inv_unique of the run
    a_pages,    \* the outcome of the card-page fetch of each row of a_inv
    apc,        \* "loop", "rows", "done", "raised" ("idle": not run)
    aidx,       \* the row the loop is at
    commander_stats,            \* [key, matches, percent_sum, percent_count, cards]
    synergy_recommendations,
    skipped_cards,
    ranked,     \* the rows of the returned DataFrame, in its order
    \* ---- find_best_commanders.export_with_formatting
    e_df,       \* the DataFrame it is given: rows like those of ranked
    e_avg,      \* fetch_average_deck of the commander of each row
    e_fetch,    \* whether the card pages can be fetched
    epc,        \* "flat", "avg", "sort", "done" ("idle": not run)
    eidx,       \* the row the average-deck loop is at
    flat,       \* [commander, card, percent, scryfall, source, collections]
    df2,        \* the rows of the sheet, in their final order
    e_net,      \* what it did on the network, in order: "call" and "sleep"
    \* ---- complete_deck.parse_partial_decklists
    dl_lines,   \* the lines of the file of partial decks
    dl_decks,   \* the decks it returns: [commander, cards]
    dl_pc,      \* "start", "parsed" ("idle": not run)
    \* ---- add_collection_tags
    tg_lines,   \* the lines of the input file, as readlines() gives them
    card_collections,   \* load_inventory(): [key, collections]
    tg_out,     \* the lines written to the output file
    tg_pc,      \* "start", "single", "all" ("idle": not run)
    \* ---- slug and the tag sanitizers applied to one text
    s_in,       \* the text handed to the function
    s_op,       \* the function that ran ("none" before it ran, "idle": not run)
    s_out,      \* what it returned
    \* ---- find_best_commanders.py from its first statement to its last
    m_entry,    \* "script": run as a program; "loaded": imported, then driven
    m_inventory,    \* whether the inventory file exists
    m_cards,    \* the cards of inv_unique that are not basic lands
    m_done,     \* the cards analyze_inventory has processed
    m_qualify,  \* the rows of the DataFrame analyze_inventory returns
    m_eidx,     \* the row the average-deck loop of the export is at
    m_calls,    \* the remote calls issued so far
    m_written,  \* whether the spreadsheet file has been written
    m_response, \* the answer to the prompt of the main block
    m_selection,    \* the selection typed to generate_decklists_interactive
    m_selected, \* the indices parse_selection returned
    m_said,     \* the reports printed: "traceback", "fatal", "not_saved", "invalid_selection"
    m_pc        \* where the run is ("idle": not run)

xvars == <<xdata, xtarget, xop, xout>>
cvars == <<cname, cresp, cfound, cvia, ccolors, clookup, clegal, cpc>>
dinputs == <<deck, inventory, commander_colors, avg_resp, syn_resps, lookups>>
dlocals == <<pc, edhrec_cards, all_synergies, idx, cards_to_check, key_cards_missing,
             ci, suggestions, result>>
dvars == <<dinputs, dlocals>>
ivars == <<irows, ipc, inv_map_cd, inv_unique, inv_map, inv_source_map>>
\* everything outside the three groups above
avars == <<a_inv, a_pages, apc, aidx, commander_stats, synergy_recommendations,
           skipped_cards, ranked>>
evars == <<e_df, e_avg, e_fetch, epc, eidx, flat, df2, e_net>>
pvars == <<dl_lines, dl_decks, dl_pc>>
\* the groups of the text files
tvars == <<tg_lines, card_collections, tg_out, tg_pc>>
svars == <<s_in, s_op, s_out>>
mvars == <<m_entry, m_inventory, m_cards, m_done, m_qualify, m_eidx, m_calls, m_written,
           m_response, m_selection, m_selected, m_said, m_pc>>
hvars == <<svars, mvars>>
gvars == <<pvars, tvars, hvars>>
fvars == <<ivars, avars, evars, gvars>>

(***************************************************************************)
(* Python str                                                              *)
(***************************************************************************)
UpperLetters == <<"A","B","C","D","E","F","G","H","I","J","K","L","M",
                  "N","O","P","Q","R","S","T","U","V","W","X","Y","Z">>
LowerLetters == <<"a","b","c","d","e","f","g","h","i","j","k","l","m",
                  "n","o","p","q","r","s","t","u","v","w","x","y","z">>

LowerChar(c) ==
    IF \E i \in 1..26 : UpperLetters[i] = c
    THEN LowerLetters[CHOOSE i \in 1..26 : UpperLetters[i] = c]
    ELSE c

UpperChar(c) ==
    IF \E i \in 1..26 : LowerLetters[i] = c
    THEN UpperLetters[CHOOSE i \in 1..26 : LowerLetters[i] = c]
    ELSE c

\* str.lower() and str.upper()
Lower(s) == [i \in 1..Len(s) |-> LowerChar(s[i])]
Upper(s) == [i \in 1..Len(s) |-> UpperChar(s[i])]

\* sub in s
Contains(sub, s) ==
    \E i \in 0..(Len(s) - Len(sub)) : SubSeq(s, i + 1, i + Len(sub)) = sub

RECURSIVE Concat(_)
Concat(ss) == IF ss = <<>> THEN <<>> ELSE Head(ss) \o Concat(Tail(ss))

\* the order of str: characters by code point, then length
CodeOrder ==
    <<" ", "-", "0","1","2","3","4","5","6","7","8","9">> \o UpperLetters
        \o <<"_">> \o LowerLetters

CharCode(c) == CHOOSE i \in 1..Len(CodeOrder) : CodeOrder[i] = c

RECURSIVE StrLess(_, _)
StrLess(a, b) ==
    IF b = <<>> THEN FALSE
    ELSE IF a = <<>> THEN TRUE
    ELSE IF Head(a) # Head(b) THEN CharCode(Head(a)) < CharCode(Head(b))
    ELSE StrLess(Tail(a), Tail(b))

\* sorted(S) for a set of str
RECURSIVE SortedStrs(_)
SortedStrs(S) ==
    IF S = {} THEN <<>>
    ELSE LET least == CHOOSE x \in S : \A y \in S \ {x} : StrLess(x, y)
         IN  <<least>> \o SortedStrs(S \ {least})

(***************************************************************************)
(* JSON values as Python sees them                                         *)
(***************************************************************************)
JNull        == [t |-> "null", n |-> 0, s |-> <<>>, keys |-> <<>>, kids |-> <<>>]
JBool(b)     == [t |-> "bool", n |-> IF b THEN 100 ELSE 0, s |-> <<>>, keys |-> <<>>, kids |-> <<>>]
JNum(n)      == [t |-> "num", n |-> n, s |-> <<>>, keys |-> <<>>, kids |-> <<>>]
JStr(s)      == [t |-> "str", n |-> 0, s |-> s, keys |-> <<>>, kids |-> <<>>]
JList(kids)  == [t |-> "list", n |-> 0, s |-> <<>>, keys |-> <<>>, kids |-> kids]
JDict(ks, vs) == [t |-> "dict", n |-> 0, s |-> <<>>, keys |-> ks, kids |-> vs]

\* bool(v): None, False, 0, "", [] and {} are falsy
Truthy(v) ==
    CASE v.t = "null" -> FALSE
      [] v.t \in {"bool", "num"} -> v.n # 0
      [] v.t = "str" -> Len(v.s) > 0
      [] OTHER -> Len(v.kids) > 0

\* key in o
Has(o, k) == o.t = "dict" /\ \E i \in 1..Len(o.keys) : o.keys[i] = k

\* o.get(k, dflt) for a dict o
Get(o, k, dflt) ==
    IF Has(o, k) THEN o.kids[CHOOSE i \in 1..Len(o.keys) : o.keys[i] = k] ELSE dflt

\* int, float and bool take part in arithmetic and ordering; nothing else does
IsNumeric(v) == v.t \in {"num", "bool"}

\* str(v).  Exact for str, None and bool.  A number renders as digits (it has
\* no letters, which is all the substring tests below depend on); a container
\* renders as its brackets around the renderings of its members.
RECURSIVE StrOf(_)
StrOf(v) ==
    CASE v.t = "str" -> v.s
      [] v.t = "null" -> <<"N","o","n","e">>
      [] v.t = "bool" -> IF v.n # 0 THEN <<"T","r","u","e">> ELSE <<"F","a","l","s","e">>
      [] v.t = "num" -> <<"0">>
      [] v.t = "list" -> <<"[">> \o Concat([i \in 1..Len(v.kids) |-> StrOf(v.kids[i])]) \o <<"]">>
      [] OTHER -> <<"{">> \o Concat([i \in 1..Len(v.kids) |-> StrOf(v.kids[i])]) \o <<"}">>

\* What "for x in v" yields, or that it raises TypeError.  A str yields its
\* characters and a dict its keys: both are str objects, modelled as JStr.
Iterable(v) == v.t \in {"list", "dict", "str"}
IterItems(v) ==
    CASE v.t = "list" -> v.kids
      [] v.t = "dict" -> [i \in 1..Len(v.keys) |-> JStr(<<"k">>)]
      [] v.t = "str" -> [i \in 1..Len(v.s) |-> JStr(<<v.s[i]>>)]
      [] OTHER -> <<>>

S_commanders == <<"/","c","o","m","m","a","n","d","e","r","s","/">>
S_synergy    == <<"s","y","n","e","r","g","y">>
S_cards      == <<"c","a","r","d","s">>
S_budget     == <<"b","u","d","g","e","t">>

(***************************************************************************)
(* find_best_commanders.py: find_scryfall_for_card                         *)
(* complete_deck.py: find_scryfall_in_data (the same scan; "" for None)    *)
(***************************************************************************)
RECURSIVE ScryScan(_, _, _)
ScryScan(o, target, st) ==
    IF st.raised \/ Truthy(st.found) THEN st
    ELSE IF o.t = "dict" THEN
        LET nm == Get(o, "name", JNull) IN
        IF Truthy(nm) /\ nm.t # "str"
        THEN [st EXCEPT !.raised = TRUE]            \* o["name"].lower(): AttributeError
        ELSE IF Truthy(nm) /\ Lower(nm.s) = target /\ Has(o, "scryfall_uri")
        THEN [st EXCEPT !.found = Get(o, "scryfall_uri", JNull)]
        ELSE LET F[i \in 0..Len(o.kids)] ==
                    IF i = 0 THEN st ELSE ScryScan(o.kids[i], target, F[i - 1])
             IN F[Len(o.kids)]
    ELSE IF o.t = "list" THEN
        LET F[i \in 0..Len(o.kids)] ==
                IF i = 0 THEN st ELSE ScryScan(o.kids[i], target, F[i - 1])
        IN F[Len(o.kids)]
    ELSE st

find_scryfall_for_card(data, target_name) ==
    IF data.t = "null" THEN [raised |-> FALSE, val |-> JNull]
    ELSE LET st == ScryScan(data, Lower(target_name), [raised |-> FALSE, found |-> JNull])
         IN [raised |-> st.raised, val |-> st.found]

find_scryfall_in_data(data, card_name) ==
    IF data.t = "null" THEN [raised |-> FALSE, val |-> JStr(<<>>)]
    ELSE LET st == ScryScan(data, Lower(card_name), [raised |-> FALSE, found |-> JStr(<<>>)])
         IN [raised |-> st.raised, val |-> st.found]

(***************************************************************************)
(* "for cv in o['cardviews']: cv.get(...)": the items, and whether reading *)
(* them raises (a non-iterable value: TypeError; an item that is not a     *)
(* dict has no .get: AttributeError).                                      *)
(***************************************************************************)
CardviewsRaises(o) ==
    /\ Has(o, "cardviews")
    /\ LET cvs == Get(o, "cardviews", JNull) IN
       \/ ~Iterable(cvs)
       \/ \E i \in 1..Len(IterItems(cvs)) : IterItems(cvs)[i].t # "dict"

CardviewsOf(o) ==
    IF Has(o, "cardviews") THEN IterItems(Get(o, "cardviews", JNull)) ELSE <<>>

(***************************************************************************)
(* find_best_commanders.py: extract_commanders_from_card_json              *)
(***************************************************************************)
\* (a mutant: the floor itself admitted)
PercentAtLeastFloor(inc, pot) ==
    IF pot > 0 THEN 5 * inc >= pot ELSE 5 * inc <= pot

\* percent > 0.2 for percent = inc / pot (pot # 0)
PercentAboveFloor(inc, pot) ==
    IF pot > 0 THEN 5 * inc > pot ELSE 5 * inc < pot

\* one dict node: the record it appends, if any
CommanderNode(o, scry, st) ==
    LET url  == Get(o, "url", JNull)
        name == Get(o, "name", JNull)
        inc  == Get(o, "inclusion", JNull)
        pot  == Get(o, "potential_decks", JNull)
    IN  IF url.t = "str" /\ Contains(S_commanders, url.s)
           /\ Truthy(name) /\ Truthy(inc) /\ Truthy(pot)
        THEN IF ~IsNumeric(inc) \/ ~IsNumeric(pot)
             THEN [st EXCEPT !.raised = TRUE]             \* inc/pot: TypeError
             ELSE IF PercentAboveFloor(inc.n, pot.n)
                  THEN [st EXCEPT !.acc = Append(@,
                           [commander |-> name,
                            percent   |-> [num |-> inc.n, den |-> pot.n],
                            scryfall  |-> scry])]
                  ELSE st
        ELSE st

RECURSIVE CommanderScan(_, _, _)
CommanderScan(o, scry, st) ==
    IF st.raised THEN st
    ELSE IF o.t \in {"dict", "list"} THEN
        LET st0 == IF o.t = "dict" THEN CommanderNode(o, scry, st) ELSE st
            F[i \in 0..Len(o.kids)] ==
                IF i = 0 THEN st0 ELSE CommanderScan(o.kids[i], scry, F[i - 1])
        IN F[Len(o.kids)]
    ELSE st

extract_commanders_from_card_json(data, card_name) ==
    LET scry == find_scryfall_for_card(data, card_name) IN
    IF scry.raised THEN [raised |-> TRUE, val |-> <<>>]
    ELSE LET st == CommanderScan(data, scry.val, [raised |-> FALSE, acc |-> <<>>])
         IN [raised |-> st.raised, val |-> IF st.raised THEN <<>> ELSE st.acc]

(***************************************************************************)
(* find_best_commanders.py: extract_synergy_cards                          *)
(***************************************************************************)
LooksLikeSynergySection(o) ==
    \/ Contains(S_synergy, Lower(StrOf(Get(o, "header", JStr(<<>>)))))
    \/ Contains(S_cards, Lower(StrOf(Get(o, "tag", JStr(<<>>)))))

SynergyView(cv, card_name, st) ==
    LET nm  == Get(cv, "name", JNull)
        syn == Get(cv, "synergy", JNum(0))
    IN  IF st.raised \/ ~Truthy(nm) THEN st
        ELSE IF ~IsNumeric(syn) THEN [st EXCEPT !.raised = TRUE]   \* syn > 0.1: TypeError
        ELSE IF syn.n > 10
        THEN [st EXCEPT !.acc = Append(@, [card |-> nm, synergy |-> syn.n,
                                           with_card |-> card_name])]
        ELSE st

SynergyNode(o, card_name, st) ==
    IF LooksLikeSynergySection(o) /\ Has(o, "cardviews")
    THEN IF CardviewsRaises(o) THEN [st EXCEPT !.raised = TRUE]
         ELSE LET cvs == CardviewsOf(o)
                  F[i \in 0..Len(cvs)] ==
                      IF i = 0 THEN st ELSE SynergyView(cvs[i], card_name, F[i - 1])
              IN F[Len(cvs)]
    ELSE st

RECURSIVE SynergyScan(_, _, _)
SynergyScan(o, card_name, st) ==
    IF st.raised THEN st
    ELSE IF o.t \in {"dict", "list"} THEN
        LET st0 == IF o.t = "dict" THEN SynergyNode(o, card_name, st) ELSE st
            F[i \in 0..Len(o.kids)] ==
                IF i = 0 THEN st0 ELSE SynergyScan(o.kids[i], card_name, F[i - 1])
        IN F[Len(o.kids)]
    ELSE st

extract_synergy_cards(data, card_name) ==
    LET scry == find_scryfall_for_card(data, card_name) IN
    IF scry.raised THEN [raised |-> TRUE, val |-> <<>>]
    ELSE LET st == SynergyScan(data, card_name, [raised |-> FALSE, acc |-> <<>>])
         IN [raised |-> st.raised, val |-> IF st.raised THEN <<>> ELSE st.acc]

(***************************************************************************)
(* find_best_commanders.py: fetch_average_deck, the scan of the payload    *)
(* and the final sorted(cards).  val is the set of names; sorted() raises  *)
(* TypeError when the set mixes str with numbers.                          *)
(***************************************************************************)
AvgNamesView(cv, st) ==
    LET nm == Get(cv, "name", JNull) IN
    IF st.raised \/ ~Truthy(nm) THEN st
    ELSE IF nm.t \in {"list", "dict"} THEN [st EXCEPT !.raised = TRUE]  \* unhashable
    ELSE [st EXCEPT !.acc = @ \cup {nm}]

AvgNamesNode(o, st) ==
    IF Has(o, "cardviews")
    THEN IF CardviewsRaises(o) THEN [st EXCEPT !.raised = TRUE]
         ELSE LET cvs == CardviewsOf(o)
                  F[i \in 0..Len(cvs)] ==
                      IF i = 0 THEN st ELSE AvgNamesView(cvs[i], F[i - 1])
              IN F[Len(cvs)]
    ELSE st

RECURSIVE AvgNamesScan(_, _)
AvgNamesScan(o, st) ==
    IF st.raised THEN st
    ELSE IF o.t \in {"dict", "list"} THEN
        LET st0 == IF o.t = "dict" THEN AvgNamesNode(o, st) ELSE st
            F[i \in 0..Len(o.kids)] ==
                IF i = 0 THEN st0 ELSE AvgNamesScan(o.kids[i], F[i - 1])
        IN F[Len(o.kids)]
    ELSE st

fetch_average_deck_scan(data) ==
    LET st == AvgNamesScan(data, [raised |-> FALSE, acc |-> {}])
        mixed == (\E a \in st.acc : a.t = "str") /\ (\E b \in st.acc : b.t # "str")
    IN  IF st.raised \/ mixed THEN [raised |-> TRUE, val |-> {}]
        ELSE [raised |-> FALSE, val |-> st.acc]

(***************************************************************************)
(* A Python dict built by the program: a sequence of entries in insertion  *)
(* order, each with its key in the field "key".                            *)
(***************************************************************************)
KeyIdx(m, k) ==
    IF \E i \in 1..Len(m) : m[i].key = k
    THEN CHOOSE i \in 1..Len(m) : m[i].key = k
    ELSE 0

KeysOf(m) == {m[i].key : i \in 1..Len(m)}

(***************************************************************************)
(* complete_deck.py: get_average_and_budget_deck, the scan that builds     *)
(* cards_info.  inclusion and num_decks are stored in hundredths; price    *)
(* and scryfall keep the JSON value of the first appearance.               *)
(***************************************************************************)
\* (a mutant: the latest appearance's counts and link kept)
AvgViewLastWins(card, is_budget, st) ==
    LET name == Get(card, "name", JNull) IN
    IF st.raised \/ ~Truthy(name) THEN st
    ELSE IF name.t # "str" THEN [st EXCEPT !.raised = TRUE]     \* name.lower()
    ELSE
      LET name_lower == Lower(name.s)
          m0 == IF KeyIdx(st.acc, name_lower) = 0
                THEN Append(st.acc, [key       |-> name_lower,
                                     name      |-> name.s,
                                     inclusion |-> 0,
                                     num_decks |-> 0,
                                     is_budget |-> is_budget,
                                     synergy   |-> 0,
                                     price     |-> Get(card, "price", JNum(0)),
                                     scryfall  |-> Get(card, "scryfall_uri", JStr(<<>>))])
                ELSE st.acc
          i == KeyIdx(m0, name_lower)
          inclusion == Get(card, "inclusion", JNum(0))
          num_decks == Get(card, "num_decks", JNum(0))
          scryfall  == Get(card, "scryfall_uri", JStr(<<>>))
      IN  IF ~IsNumeric(inclusion) \/ ~IsNumeric(num_decks)
          THEN [st EXCEPT !.raised = TRUE]                       \* x > int: TypeError
          ELSE [st EXCEPT !.acc =
                  [m0 EXCEPT
                     ![i].inclusion = inclusion.n,
                     ![i].num_decks = num_decks.n,
                     ![i].scryfall  = IF Truthy(scryfall) THEN scryfall ELSE @,
                     ![i].is_budget = @ \/ is_budget]]

AvgView(card, is_budget, st) ==
    LET name == Get(card, "name", JNull) IN
    IF st.raised \/ ~Truthy(name) THEN st
    ELSE IF name.t # "str" THEN [st EXCEPT !.raised = TRUE]     \* name.lower()
    ELSE
      LET name_lower == Lower(name.s)
          m0 == IF KeyIdx(st.acc, name_lower) = 0
                THEN Append(st.acc, [key       |-> name_lower,
                                     name      |-> name.s,
                                     inclusion |-> 0,
                                     num_decks |-> 0,
                                     is_budget |-> is_budget,
                                     synergy   |-> 0,
                                     price     |-> Get(card, "price", JNum(0)),
                                     scryfall  |-> Get(card, "scryfall_uri", JStr(<<>>))])
                ELSE st.acc
          i == KeyIdx(m0, name_lower)
          inclusion == Get(card, "inclusion", JNum(0))
          num_decks == Get(card, "num_decks", JNum(0))
          scryfall  == Get(card, "scryfall_uri", JStr(<<>>))
      IN  IF ~IsNumeric(inclusion) \/ ~IsNumeric(num_decks)
          THEN [st EXCEPT !.raised = TRUE]                       \* x > int: TypeError
          ELSE [st EXCEPT !.acc =
                  [m0 EXCEPT
                     ![i].inclusion = IF inclusion.n > @ THEN inclusion.n ELSE @,
                     ![i].num_decks = IF num_decks.n > @ THEN num_decks.n ELSE @,
                     ![i].scryfall  = IF Truthy(scryfall) /\ ~Truthy(@) THEN scryfall ELSE @,
                     ![i].is_budget = @ \/ is_budget]]

\* for card in obj['cardviews'], the cards lo..hi in order: the first half, then
\* the second half from where the first half ended (an exception ends the loop)
RECURSIVE AvgViews(_, _, _, _, _)
AvgViews(cvs, is_budget, st, lo, hi) ==
    IF lo > hi THEN st
    ELSE IF lo = hi THEN AvgView(cvs[lo], is_budget, st)
    ELSE LET mid  == (lo + hi) \div 2
             left == AvgViews(cvs, is_budget, st, lo, mid)
         IN  IF left.raised THEN left
             ELSE AvgViews(cvs, is_budget, left, mid + 1, hi)

AvgNode(o, is_budget, st) ==
    IF Has(o, "cardviews")
    THEN IF CardviewsRaises(o) THEN [st EXCEPT !.raised = TRUE]
         ELSE LET cvs == CardviewsOf(o)
              IN  AvgViews(cvs, is_budget, st, 1, Len(cvs))
    ELSE st

RECURSIVE AvgScan(_, _, _)
\* for value in obj.values() / for item in obj, the children lo..hi in order,
\* split in halves like AvgViews
RECURSIVE AvgScanKids(_, _, _, _, _)
AvgScanKids(kids, in_budget_section, st, lo, hi) ==
    IF lo > hi THEN st
    ELSE IF lo = hi THEN AvgScan(kids[lo], in_budget_section, st)
    ELSE LET mid  == (lo + hi) \div 2
             left == AvgScanKids(kids, in_budget_section, st, lo, mid)
         IN  IF left.raised THEN left
             ELSE AvgScanKids(kids, in_budget_section, left, mid + 1, hi)

AvgScan(obj, in_budget_section, st) ==
    IF st.raised THEN st
    ELSE IF obj.t = "dict" THEN
        LET is_budget ==
                \/ Contains(S_budget, Lower(StrOf(Get(obj, "tag", JStr(<<>>)))))
                \/ in_budget_section
            st0 == AvgNode(obj, is_budget, st)
        IN AvgScanKids(obj.kids, is_budget, st0, 1, Len(obj.kids))
    ELSE IF obj.t = "list" THEN
        AvgScanKids(obj.kids, in_budget_section, st, 1, Len(obj.kids))
    ELSE st

get_average_and_budget_deck_scan(data) ==
    LET st == AvgScan(data, FALSE, [raised |-> FALSE, acc |-> <<>>])
    IN [raised |-> st.raised, val |-> IF st.raised THEN <<>> ELSE st.acc]

(***************************************************************************)
(* complete_deck.py: get_card_synergies, after the fetch                   *)
(***************************************************************************)
MIN_SYNERGY_SCORE == 10

SynView(card, st) ==
    LET name     == Get(card, "name", JNull)
        synergy  == Get(card, "synergy", JNum(0))
        scryfall == Get(card, "scryfall_uri", JStr(<<>>))
    IN  IF st.raised \/ ~Truthy(name) THEN st
        ELSE IF ~IsNumeric(synergy) THEN [st EXCEPT !.raised = TRUE]
        ELSE IF ~(synergy.n > MIN_SYNERGY_SCORE) THEN st
        ELSE IF name.t # "str" THEN [st EXCEPT !.raised = TRUE]   \* name.lower()
        ELSE LET k == Lower(name.s)
                 e == [key |-> k, synergy |-> synergy.n, scryfall |-> scryfall]
             IN  IF KeyIdx(st.acc, k) = 0
                 THEN [st EXCEPT !.acc = Append(@, e)]
                 ELSE [st EXCEPT !.acc[KeyIdx(st.acc, k)] = e]

SynNode(o, st) ==
    IF Has(o, "cardviews")
    THEN IF CardviewsRaises(o) THEN [st EXCEPT !.raised = TRUE]
         ELSE LET cvs == CardviewsOf(o)
                  F[i \in 0..Len(cvs)] ==
                      IF i = 0 THEN st ELSE SynView(cvs[i], F[i - 1])
              IN F[Len(cvs)]
    ELSE st

RECURSIVE SynScan(_, _)
SynScan(o, st) ==
    IF st.raised THEN st
    ELSE IF o.t \in {"dict", "list"} THEN
        LET st0 == IF o.t = "dict" THEN SynNode(o, st) ELSE st
            F[i \in 0..Len(o.kids)] ==
                IF i = 0 THEN st0 ELSE SynScan(o.kids[i], F[i - 1])
        IN F[Len(o.kids)]
    ELSE st

get_card_synergies_scan(data, card_name) ==
    LET target_scryfall == find_scryfall_in_data(data, card_name) IN
    IF target_scryfall.raised THEN [raised |-> TRUE, val |-> <<>>]
    ELSE LET st == SynScan(data, [raised |-> FALSE, acc |-> <<>>])
         IN [raised |-> st.raised, val |-> IF st.raised THEN <<>> ELSE st.acc]

(***************************************************************************)
(* Payloads handed to the extraction operations: every JSON type in every  *)
(* field the operations read, present or missing.                          *)
(***************************************************************************)
S_a       == <<"a">>
S_A       == <<"A">>
S_b       == <<"b">>
S_link1   == <<"u","1">>
S_link2   == <<"u","2">>
S_cmdurl  == <<"/","c","o","m","m","a","n","d","e","r","s","/","x">>
S_cardurl == <<"/","c","a","r","d","s","/","x">>

XNameVals == {JNull, JStr(<<>>), JStr(S_a), JStr(S_A), JNum(500), JList(<<JStr(S_a)>>)}
XNumVals  == {JNull, JNum(0), JNum(30), JNum(300), JStr(<<"x">>), JBool(TRUE)}
XLinkVals == {JNull, JStr(<<>>), JStr(S_link1), JStr(S_link2)}
XUrlVals  == {JNull, JStr(S_cmdurl), JStr(S_cardurl), JNum(100)}

XSection(cvs) ==
    JDict(<<"header", "tag", "cardviews">>, <<JStr(S_synergy), JStr(S_budget), cvs>>)

XSynViews == {JDict(<<"name", "synergy">>, <<nm, syn>>) : nm \in XNameVals, syn \in XNumVals}
XAvgViews == {JDict(<<"name", "inclusion", "num_decks", "scryfall_uri">>, <<nm, inc, nd, JStr(S_link1)>>) :
                 nm \in {JNull, JStr(S_a), JNum(500)}, inc \in XNumVals, nd \in XNumVals}
XOddViews == {JNull, JNum(100), JStr(<<>>), JStr(<<"a","b">>), JDict(<<>>, <<>>),
              JDict(<<"name">>, <<JStr(S_a)>>), JList(<<>>), JList(<<JNull>>),
              JList(<<JStr(S_a)>>), JList(<<JDict(<<>>, <<>>)>>),
              JList(<<JDict(<<"name">>, <<JStr(S_a)>>), JDict(<<"name">>, <<JNum(500)>>)>>)}
\* an inclusion or potential-deck count: missing, zero, a count, or no number
XCountVals == {JNull, JNum(0), JNum(100), JNum(300), JNum(500), JStr(<<"x">>), JBool(TRUE)}
XCmdNodes == {JDict(<<"url", "name", "inclusion", "potential_decks">>, <<u, nm, inc, pot>>) :
                 u \in XUrlVals, nm \in {JNull, JStr(S_a)}, inc \in XCountVals, pot \in XCountVals}
XLinkNodes == {JDict(<<"name", "scryfall_uri">>, <<nm, l>>) : nm \in XNameVals, l \in XLinkVals}
               \cup {JDict(<<"name">>, <<JStr(S_a)>>)}

\* the depth cap of find_color_identity, which the claims give to the
\* own-link search too
DEPTH_CAP == 10

\* a leaf d levels below the root, under mappings and sequences in turn
RECURSIVE Nest(_, _)
Nest(d, leaf) ==
    IF d = 0 THEN leaf
    ELSE IF d % 2 = 0 THEN JList(<<Nest(d - 1, leaf)>>)
    ELSE JDict(<<"x">>, <<Nest(d - 1, leaf)>>)

NestBeyond == 2     \* how far below the depth cap the deepest leaf lies

\* a card of an average deck: its counts (present or missing) and its link
\* (JNull: missing)
XRepView(nm, counts, link) ==
    JDict(<<"name">> \o (IF counts = <<>> THEN <<>> ELSE <<"inclusion", "num_decks">>)
                    \o (IF link = JNull THEN <<>> ELSE <<"scryfall_uri">>),
          <<JStr(nm)>> \o (IF counts = <<>> THEN <<>> ELSE <<JNum(counts[1]), JNum(counts[2])>>)
                      \o (IF link = JNull THEN <<>> ELSE <<link>>))

XRepViews ==
    {XRepView(nm, counts, link) :
        nm \in {S_a, S_A},
        counts \in {<<>>, <<100, 500>>, <<300, 300>>},
        link \in {JNull, JStr(<<>>), JStr(S_link1), JStr(S_link2)}}

\* one card listed in a nested section and again in the page's own cardviews
XRepeatData ==
    {JDict(<<"x", "cardviews">>,
           <<XSection(JList(<<v1>>)), JList(<<v2, XRepView(S_b, <<300, 500>>, JNull)>>)>>) :
        v1 \in XRepViews, v2 \in XRepViews}

XDeepData ==
    {Nest(d, JDict(<<"name", "scryfall_uri">>, <<JStr(S_A), JStr(S_link1)>>)) :
        d \in (DEPTH_CAP - 1)..(DEPTH_CAP + NestBeyond)}

XPayloads ==
       {JNull, JNum(100), JStr(S_a), JList(<<>>), JDict(<<>>, <<>>)}
  \cup {XSection(JList(<<cv>>)) : cv \in XSynViews \cup XAvgViews}
  \cup {XSection(cvs) : cvs \in XOddViews}
  \cup {JDict(<<"cardviews">>, <<cvs>>) : cvs \in XOddViews}
  \cup {JList(<<n>>) : n \in XCmdNodes}
  \cup {JDict(<<"x", "y">>, <<JList(<<n1>>), n2>>) : n1 \in XLinkNodes, n2 \in XLinkNodes}
  \cup XDeepData
  \cup XRepeatData

XTargets == {S_a, S_b}

XInit ==
    /\ xdata \in XPayloads
    /\ xtarget \in XTargets
    /\ xop = "none"
    /\ xout = [raised |-> FALSE, val |-> JNull]

XIdle ==
    /\ xdata = JNull
    /\ xtarget = <<>>
    /\ xop = "none"
    /\ xout = [raised |-> FALSE, val |-> JNull]

Run_find_scryfall_for_card ==
    /\ xop = "none"
    /\ xop' = "find_scryfall_for_card"
    /\ xout' = find_scryfall_for_card(xdata, xtarget)
    /\ UNCHANGED <<xdata, xtarget, cvars, dvars, fvars>>

Run_find_scryfall_in_data ==
    /\ xop = "none"
    /\ xop' = "find_scryfall_in_data"
    /\ xout' = find_scryfall_in_data(xdata, xtarget)
    /\ UNCHANGED <<xdata, xtarget, cvars, dvars, fvars>>

Run_extract_commanders_from_card_json ==
    /\ xop = "none"
    /\ xop' = "extract_commanders_from_card_json"
    /\ xout' = extract_commanders_from_card_json(xdata, xtarget)
    /\ UNCHANGED <<xdata, xtarget, cvars, dvars, fvars>>

Run_extract_synergy_cards ==
    /\ xop = "none"
    /\ xop' = "extract_synergy_cards"
    /\ xout' = extract_synergy_cards(xdata, xtarget)
    /\ UNCHANGED <<xdata, xtarget, cvars, dvars, fvars>>

Run_fetch_average_deck_scan ==
    /\ xop = "none"
    /\ xop' = "fetch_average_deck"
    /\ xout' = fetch_average_deck_scan(xdata)
    /\ UNCHANGED <<xdata, xtarget, cvars, dvars, fvars>>

Run_get_average_and_budget_deck_scan ==
    /\ xop = "none"
    /\ xop' = "get_average_and_budget_deck"
    /\ xout' = get_average_and_budget_deck_scan(xdata)
    /\ UNCHANGED <<xdata, xtarget, cvars, dvars, fvars>>

Run_get_card_synergies_scan ==
    /\ xop = "none"
    /\ xop' = "get_card_synergies"
    /\ xout' = get_card_synergies_scan(xdata, xtarget)
    /\ UNCHANGED <<xdata, xtarget, cvars, dvars, fvars>>

XNext ==
    \/ Run_find_scryfall_for_card
    \/ Run_find_scryfall_in_data
    \/ Run_extract_commanders_from_card_json
    \/ Run_extract_synergy_cards
    \/ Run_fetch_average_deck_scan
    \/ Run_get_average_and_budget_deck_scan
    \/ Run_get_card_synergies_scan



(***************************************************************************)
(* A remote call's outcome: kind "error" (network error or timeout, the    *)
(* call raised), or "response" with an HTTP status; parsed says whether    *)
(* r.json() succeeds, data is the parsed body.                             *)
(***************************************************************************)
RespError      == [kind |-> "error", status |-> 0, parsed |-> FALSE, data |-> JNull]
RespStatus(c)  == [kind |-> "response", status |-> c, parsed |-> FALSE, data |-> JNull]
RespGarbled    == [kind |-> "response", status |-> 200, parsed |-> FALSE, data |-> JNull]
RespJson(d)    == [kind |-> "response", status |-> 200, parsed |-> TRUE, data |-> d]

(***************************************************************************)
(* complete_deck.py: get_commander_colors.find_color_identity              *)
(***************************************************************************)
\* (a mutant: the search without its depth cap)
RECURSIVE find_color_identity_uncapped(_, _)
find_color_identity_uncapped(obj, depth) ==
    IF obj.t = "dict" /\ Has(obj, "coloridentity") THEN Get(obj, "coloridentity", JNull)
    ELSE IF obj.t = "dict" /\ Has(obj, "colors") /\ Get(obj, "colors", JNull).t = "list"
         THEN Get(obj, "colors", JNull)
    ELSE IF obj.t \in {"dict", "list"} THEN
        LET hit == {i \in 1..Len(obj.kids) :
                        Truthy(find_color_identity_uncapped(obj.kids[i], depth + 1))}
        IN  IF hit = {} THEN JNull
            ELSE find_color_identity_uncapped(
                     obj.kids[CHOOSE i \in hit : \A j \in hit : i <= j], depth + 1)
    ELSE JNull

RECURSIVE find_color_identity(_, _)
find_color_identity(obj, depth) ==
    IF depth > DEPTH_CAP THEN JNull
    ELSE IF obj.t = "dict" /\ Has(obj, "coloridentity") THEN Get(obj, "coloridentity", JNull)
    ELSE IF obj.t = "dict" /\ Has(obj, "colors") /\ Get(obj, "colors", JNull).t = "list"
         THEN Get(obj, "colors", JNull)
    ELSE IF obj.t \in {"dict", "list"} THEN
        \* the first truthy result among the members, in order
        LET hit == {i \in 1..Len(obj.kids) :
                        Truthy(find_color_identity(obj.kids[i], depth + 1))}
        IN  IF hit = {} THEN JNull
            ELSE find_color_identity(
                     obj.kids[CHOOSE i \in hit : \A j \in hit : i <= j], depth + 1)
    ELSE JNull

(***************************************************************************)
(* complete_deck.py: guess_colors_from_name                                *)
(***************************************************************************)
S_atraxa    == <<"a","t","r","a","x","a">>
S_muldrotha == <<"m","u","l","d","r","o","t","h","a">>
S_korvold   == <<"k","o","r","v","o","l","d">>
S_golos     == <<"g","o","l","o","s">>
S_chulane   == <<"c","h","u","l","a","n","e">>

ColorList(cs) == JList([i \in 1..Len(cs) |-> JStr(<<cs[i]>>)])

guess_colors_from_name(commander_name) ==
    LET name_lower == Lower(commander_name) IN
    CASE Contains(S_atraxa, name_lower)    -> ColorList(<<"W","U","B","G">>)
      [] Contains(S_muldrotha, name_lower) -> ColorList(<<"U","B","G">>)
      [] Contains(S_korvold, name_lower)   -> ColorList(<<"B","R","G">>)
      [] Contains(S_golos, name_lower)     -> ColorList(<<"W","U","B","R","G">>)
      [] Contains(S_chulane, name_lower)   -> ColorList(<<"G","W","U">>)
      [] OTHER                             -> ColorList(<<"W","U","B","R","G">>)

(***************************************************************************)
(* complete_deck.py: get_commander_colors, given the outcome of its fetch  *)
(***************************************************************************)
KeyChars(k) ==
    CASE k = "container" -> <<"c","o","n","t","a","i","n","e","r">>
      [] k = "json_dict" -> <<"j","s","o","n","_","d","i","c","t">>
      [] k = "card" -> <<"c","a","r","d">>
      [] OTHER -> <<"c","o","l","o","r","_","i","d","e","n","t","i","t","y">>

\* "k in v" followed by v[k]: "no" when k is not in v, "value" with v[k] when
\* v is a dict holding k, "raise" when either expression raises TypeError
\* (k in None / number; v[k] on a list or a str).
Member(k, v) ==
    CASE v.t = "dict" -> IF Has(v, k) THEN [r |-> "value", v |-> Get(v, k, JNull)]
                         ELSE [r |-> "no", v |-> JNull]
      [] v.t = "list" -> IF \E i \in 1..Len(v.kids) :
                                v.kids[i].t = "str" /\ v.kids[i].s = KeyChars(k)
                         THEN [r |-> "raise", v |-> JNull] ELSE [r |-> "no", v |-> JNull]
      [] v.t = "str"  -> IF Contains(KeyChars(k), v.s)
                         THEN [r |-> "raise", v |-> JNull] ELSE [r |-> "no", v |-> JNull]
      [] OTHER -> [r |-> "raise", v |-> JNull]

\* Metodo 2: data["container"]["json_dict"]["card"]["color_identity"]
ContainerColors(data, colors) ==
    LET c1 == Member("container", data) IN
    IF c1.r # "value" THEN [r |-> c1.r, v |-> colors] ELSE
    LET c2 == Member("json_dict", c1.v) IN
    IF c2.r # "value" THEN [r |-> c2.r, v |-> colors] ELSE
    LET c3 == Member("card", c2.v) IN
    IF c3.r # "value" THEN [r |-> c3.r, v |-> colors] ELSE
    LET c4 == Member("color_identity", c3.v) IN
    IF c4.r # "value" THEN [r |-> c4.r, v |-> colors] ELSE [r |-> "value", v |-> c4.v]

\* colors = [c.upper() if isinstance(c, str) else c for c in colors]
NormalizeColors(colors) ==
    JList([i \in 1..Len(colors.kids) |->
              IF colors.kids[i].t = "str" THEN JStr(Upper(colors.kids[i].s))
              ELSE colors.kids[i]])

\* r = SESSION.get(url); r.status_code == 200; data = r.json(), none raising
Fetched(resp) == resp.kind = "response" /\ resp.status = 200 /\ resp.parsed

\* (a mutant: the name table consulted before the payload)
get_commander_colors_table_first(commander_name, resp) ==
    IF \E k \in {S_atraxa, S_muldrotha, S_korvold, S_golos, S_chulane} :
           Contains(k, Lower(commander_name))
    THEN guess_colors_from_name(commander_name)
    ELSE IF Fetched(resp) /\ Truthy(find_color_identity(resp.data, 0))
                          /\ find_color_identity(resp.data, 0).t = "list"
    THEN NormalizeColors(find_color_identity(resp.data, 0))
    ELSE guess_colors_from_name(commander_name)

get_commander_colors(commander_name, resp) ==
    IF ~Fetched(resp)
    THEN guess_colors_from_name(commander_name)
    ELSE
      LET data == resp.data
          c0   == find_color_identity(data, 0)
          m2   == IF ~Truthy(c0) THEN ContainerColors(data, c0) ELSE [r |-> "value", v |-> c0]
      IN  IF m2.r = "raise" THEN guess_colors_from_name(commander_name)   \* except Exception
          ELSE IF Truthy(m2.v) /\ m2.v.t = "list" THEN NormalizeColors(m2.v)
          ELSE guess_colors_from_name(commander_name)

(***************************************************************************)
(* complete_deck.py: card_is_legal_in_colors, given the outcome of the     *)
(* Scryfall lookup.  colors (commander_colors) is None (JNull) or a list.   *)
(***************************************************************************)
\* set(card_colors): the members, or TypeError
SetRaises(v) ==
    \/ ~Iterable(v)
    \/ \E i \in 1..Len(IterItems(v)) : IterItems(v)[i].t \in {"list", "dict"}

SetOf(v) == {IterItems(v)[i] : i \in 1..Len(IterItems(v))}

\* (a mutant: the containment tested the wrong way round)
IsSupersetOfColors(card_colors_set, commander_colors_set) ==
    \A c \in commander_colors_set : JStr(c) \in card_colors_set

IsSubsetOfColors(card_colors_set, commander_colors_set) ==
    \A e \in card_colors_set : e.t = "str" /\ e.s \in commander_colors_set

card_is_legal_in_colors(colors, resp) ==
    IF ~Truthy(colors) THEN [raised |-> FALSE, val |-> TRUE]
    ELSE IF \E i \in 1..Len(colors.kids) : colors.kids[i].t # "str"
    THEN [raised |-> TRUE, val |-> FALSE]           \* c.upper(), outside the try
    ELSE
      LET commander_colors_set ==
              {Upper(colors.kids[i].s) : i \in 1..Len(colors.kids)}
      IN  IF resp.kind = "error" THEN [raised |-> FALSE, val |-> TRUE]
          ELSE IF resp.status # 200 THEN [raised |-> FALSE, val |-> TRUE]
          ELSE IF ~resp.parsed \/ resp.data.t # "dict"
          THEN [raised |-> FALSE, val |-> TRUE]     \* r.json() / data.get raised
          ELSE LET card_colors == Get(resp.data, "color_identity", JList(<<>>)) IN
               IF SetRaises(card_colors) THEN [raised |-> FALSE, val |-> TRUE]
               ELSE [raised |-> FALSE,
                     val |-> IsSubsetOfColors(SetOf(card_colors), commander_colors_set)]

(***************************************************************************)
(* The color filter on one candidate: the commander's colors are either    *)
(* what get_commander_colors returns for some outcome of its fetch, or an  *)
(* argument the caller passes; then one lookup and one verdict.            *)
(***************************************************************************)
S_Atraxa == <<"A","t","r","a","x","a">>
S_Zur    == <<"Z","u","r">>

CColorVals ==
    {JNull, JNum(500), JStr(<<"W","U">>), JList(<<>>),
     ColorList(<<"W","U","B","G">>), ColorList(<<"w","u">>), ColorList(<<"U">>),
     JList(<<JNum(100), JStr(<<"u">>)>>), JList(<<JNull>>)}

CCommanderData ==
       {JNull, JNum(100), JStr(S_a), JList(<<>>), JDict(<<>>, <<>>)}
  \cup {JDict(<<"coloridentity">>, <<v>>) : v \in CColorVals}
  \cup {JDict(<<"colors">>, <<v>>) : v \in CColorVals}
  \cup {JDict(<<"card", "panels">>, <<JDict(<<"coloridentity">>, <<v>>),
                                       JList(<<JDict(<<"colors">>, <<w>>)>>)>>) :
            v \in {JNull, JList(<<>>), ColorList(<<"U">>)},
            w \in {JList(<<>>), ColorList(<<"B","R","G">>)}}
  \cup {JDict(<<"container">>, <<JDict(<<"json_dict">>, <<JDict(<<"card">>,
            <<JDict(<<"color_identity">>, <<v>>)>>)>>)>>) : v \in CColorVals}
  \cup {JDict(<<"container">>, <<v>>) : v \in {JNull, JStr(KeyChars("json_dict")), JList(<<>>)}}

CDeepData ==
    {Nest(d, leaf) :
        d \in (DEPTH_CAP - 1)..(DEPTH_CAP + NestBeyond),
        leaf \in {JDict(<<"coloridentity">>, <<ColorList(<<"U">>)>>),
                  JDict(<<"colors">>, <<ColorList(<<"B","R","G">>)>>),
                  JDict(<<"name">>, <<JStr(S_a)>>)}}

CCommanderResps ==
    {RespError, RespStatus(404), RespStatus(500), RespGarbled}
        \cup {RespJson(d) : d \in CCommanderData \cup CDeepData}

CArgColors ==
    {JNull, JList(<<>>),
     ColorList(<<"W","U","B","G">>), ColorList(<<"w","u","b","g">>),
     ColorList(<<"U">>), ColorList(<<"u">>), ColorList(<<"W","U","B","R","G">>)}

CCardColorVals ==
    {JNull, JNum(100), JStr(<<>>), JStr(<<"R">>), JStr(<<"x","y">>), JList(<<>>),
     ColorList(<<"U","B">>), ColorList(<<"U","B","R">>), ColorList(<<"u">>),
     ColorList(<<"U">>), ColorList(<<"W","U","B","R","G">>),
     JList(<<JNum(100)>>), JList(<<ColorList(<<"U">>)>>), JDict(<<>>, <<>>)}

CLookups ==
    {RespError, RespStatus(404), RespStatus(503), RespGarbled,
     RespJson(JNull), RespJson(JList(<<>>)), RespJson(JDict(<<>>, <<>>))}
        \cup {RespJson(JDict(<<"name", "color_identity">>, <<JStr(S_a), v>>)) :
                  v \in CCardColorVals}

CInit ==
    /\ cname \in {S_Atraxa, S_Zur}
    /\ cresp = RespError
    /\ cfound = JNull
    /\ cvia = "none"
    /\ ccolors = JNull
    /\ clookup = RespError
    /\ clegal = [raised |-> FALSE, val |-> FALSE]
    /\ cpc = "start"

CIdle ==
    /\ cname = <<>>
    /\ cresp = RespError
    /\ cfound = JNull
    /\ cvia = "none"
    /\ ccolors = JNull
    /\ clookup = RespError
    /\ clegal = [raised |-> FALSE, val |-> FALSE]
    /\ cpc = "idle"

\* __main__: commander_colors = get_commander_colors(deck["commander"])
GetCommanderColors ==
    /\ cpc = "start"
    /\ \E resp \in CCommanderResps :
          /\ cresp' = resp
          /\ cfound' = IF Fetched(resp) THEN find_color_identity(resp.data, 0) ELSE JNull
          /\ ccolors' = get_commander_colors(cname, resp)
    /\ cvia' = "get_commander_colors"
    /\ cpc' = "colors"
    /\ UNCHANGED <<cname, clookup, clegal, xvars, dvars, fvars>>

\* a caller passing commander_colors itself
PassCommanderColors ==
    /\ cpc = "start"
    /\ ccolors' \in CArgColors
    /\ cvia' = "argument"
    /\ cpc' = "colors"
    /\ UNCHANGED <<cname, cresp, cfound, clookup, clegal, xvars, dvars, fvars>>

CardIsLegalInColors ==
    /\ cpc = "colors"
    /\ \E resp \in CLookups :
          /\ clookup' = resp
          /\ clegal' = card_is_legal_in_colors(ccolors, resp)
    /\ cpc' = "done"
    /\ UNCHANGED <<cname, cresp, cfound, cvia, ccolors, xvars, dvars, fvars>>

CNext == GetCommanderColors \/ PassCommanderColors \/ CardIsLegalInColors


(***************************************************************************)
(* complete_deck.py: analyze_and_complete_deck                             *)
(*                                                                         *)
(* Scores are exact fractions [num, den] (den > 0) of hundredths: a        *)
(* combined score of 30 is [num |-> 3000, den |-> 1].                      *)
(***************************************************************************)
MAX_SUGGESTIONS        == 50
KEY_CARD_INCLUSION_MIN == 40
KEY_CARD_PRICE_MAX     == 200
MIN_SCORE_THRESHOLD    == 500
SEED_LIMIT             == 20
KEY_CARDS_LIMIT        == 20

RECURSIVE GCD(_, _)
GCD(a, b) == IF b = 0 THEN a ELSE GCD(b, a % b)

\* the fraction n / d (d > 0) in lowest terms
Frac(n, d) ==
    LET g == GCD(IF n < 0 THEN -n ELSE n, d)
    IN [num |-> n \div g, den |-> d \div g]

FracLess(a, b) == a.num * b.den < b.num * a.den
FracEq(a, b)   == a.num * b.den = b.num * a.den

Min(a, b) == IF a < b THEN a ELSE b

\* get_average_and_budget_deck(commander), given the outcome of its fetch
get_average_and_budget_deck(resp) ==
    IF resp.kind = "error" \/ resp.status # 200 \/ ~resp.parsed
    THEN [raised |-> FALSE, val |-> <<>>]
    ELSE get_average_and_budget_deck_scan(resp.data)

\* get_card_synergies(card_name), given the outcome of its fetch
get_card_synergies(card_name, resp) ==
    IF resp.kind = "error" \/ resp.status # 200 \/ ~resp.parsed
    THEN [raised |-> FALSE, val |-> <<>>]
    ELSE get_card_synergies_scan(resp.data, card_name)

\* generate_scryfall_url(card_name): the search URL quoting the name
generate_scryfall_url(card_name) == JStr(<<"?", "q", "=">> \o card_name)

\* current_cards = [c.lower() for c in deck["cards"]]
CurrentCardsExact(cards) == cards
CurrentCards(cards) == [i \in 1..Len(cards) |-> Lower(cards[i])]

\* for ... in enumerate(current_cards[:20], 1)
SeedCount(current_cards) == Min(Len(current_cards), SEED_LIMIT)

\* all_synergies[synergy_card]["score"] += data["synergy"], and the first
\* non-empty link, for every entry of one seed's synergies
AccumulateOverwriting(all_syn, synergies) ==
    LET F[i \in 0..Len(synergies)] ==
            IF i = 0 THEN all_syn
            ELSE LET e == synergies[i]
                     m == IF KeyIdx(F[i - 1], e.key) = 0
                          THEN Append(F[i - 1], [key |-> e.key, score |-> 0, scryfall |-> JStr(<<>>)])
                          ELSE F[i - 1]
                     j == KeyIdx(m, e.key)
                 IN [m EXCEPT ![j].score = e.synergy,
                              ![j].scryfall = IF Truthy(e.scryfall) /\ ~Truthy(@)
                                              THEN e.scryfall ELSE @]
    IN F[Len(synergies)]

Accumulate(all_syn, synergies) ==
    LET F[i \in 0..Len(synergies)] ==
            IF i = 0 THEN all_syn
            ELSE LET e == synergies[i]
                     m == IF KeyIdx(F[i - 1], e.key) = 0
                          THEN Append(F[i - 1], [key |-> e.key, score |-> 0, scryfall |-> JStr(<<>>)])
                          ELSE F[i - 1]
                     j == KeyIdx(m, e.key)
                 IN [m EXCEPT ![j].score = @ + e.synergy,
                              ![j].scryfall = IF Truthy(e.scryfall) /\ ~Truthy(@)
                                              THEN e.scryfall ELSE @]
    IN F[Len(synergies)]

\* inclusion_pct = inclusion / num_decks if num_decks > 0 else 0
InclusionPct(info) ==
    IF info.num_decks > 0 THEN Frac(info.inclusion, info.num_decks)
    ELSE [num |-> 0, den |-> 1]

\* inclusion_pct >= KEY_CARD_INCLUSION_MIN and price <= KEY_CARD_PRICE_MAX
KeyCardGateStrict(info) ==
    /\ FracLess([num |-> KEY_CARD_INCLUSION_MIN, den |-> 100], InclusionPct(info))
    /\ info.price.n <= KEY_CARD_PRICE_MAX

KeyCardGate(info) ==
    /\ ~FracLess(InclusionPct(info), [num |-> KEY_CARD_INCLUSION_MIN, den |-> 100])
    /\ info.price.n <= KEY_CARD_PRICE_MAX

\* the first loop of step 3: key cards and the average-deck candidates
\* (price <= 2.00 raises TypeError for a price that is no number, unless the
\* inclusion test already failed)
KeyGateRaises(info) ==
    /\ ~FracLess(InclusionPct(info), [num |-> KEY_CARD_INCLUSION_MIN, den |-> 100])
    /\ ~IsNumeric(info.price)

\* one pass of the loop body, for the card info
EdhrecStep(info, current_cards_set, inv, st) ==
    IF st.raised \/ info.key \in current_cards_set THEN st
    ELSE IF info.key \notin KeysOf(inv) THEN
        IF KeyGateRaises(info) THEN [st EXCEPT !.raised = TRUE]
        ELSE IF KeyCardGate(info)
        THEN [st EXCEPT !.keys = Append(@,
                [name      |-> info.name,
                 inclusion |-> InclusionPct(info),
                 price     |-> info.price,
                 num_decks |-> info.num_decks,
                 scryfall  |-> IF Truthy(info.scryfall) THEN info.scryfall
                               ELSE generate_scryfall_url(info.name)])]
        ELSE st
    ELSE [st EXCEPT !.check = Append(@,
                [source_type |-> "edhrec", key |-> info.key])]

\* for card_lower, info in edhrec_cards.items(), the cards lo..hi in order:
\* the first half, then the second half from where the first half ended
RECURSIVE EdhrecRange(_, _, _, _, _, _)
EdhrecRange(edhrec, current_cards_set, inv, st, lo, hi) ==
    IF lo > hi THEN st
    ELSE IF lo = hi THEN EdhrecStep(edhrec[lo], current_cards_set, inv, st)
    ELSE LET mid  == (lo + hi) \div 2
             left == EdhrecRange(edhrec, current_cards_set, inv, st, lo, mid)
         IN  IF left.raised THEN left
             ELSE EdhrecRange(edhrec, current_cards_set, inv, left, mid + 1, hi)

EdhrecPass(edhrec, current_cards_set, inv) ==
    EdhrecRange(edhrec, current_cards_set, inv,
                [raised |-> FALSE, keys |-> <<>>, check |-> <<>>], 1, Len(edhrec))

\* min(synergy_score * 10, 50)
CappedSynergy(synergy_score) == Min(synergy_score * 10, 5000)

\* the second loop of step 3: the synergy-only candidates
SynergyPass(all_syn, edhrec, current_cards_set, inv, check) ==
    LET F[i \in 0..Len(all_syn)] ==
          IF i = 0 THEN check
          ELSE LET e == all_syn[i] IN
               IF \/ e.key \in current_cards_set
                  \/ e.key \in KeysOf(edhrec)
                  \/ e.key \notin KeysOf(inv)
               THEN F[i - 1]
               ELSE IF CappedSynergy(e.score) > MIN_SCORE_THRESHOLD
               THEN Append(F[i - 1], [source_type |-> "synergy", key |-> e.key])
               ELSE F[i - 1]
    IN F[Len(all_syn)]

\* all_synergies.get(card_lower, {}).get("score", 0)
SynergyScoreOf(all_syn, k) ==
    IF KeyIdx(all_syn, k) = 0 THEN 0 ELSE all_syn[KeyIdx(all_syn, k)].score

SynergyLinkOf(all_syn, k) ==
    IF KeyIdx(all_syn, k) = 0 THEN JStr(<<>>) ELSE all_syn[KeyIdx(all_syn, k)].scryfall

\* the suggestion built for one legal candidate, or none (score below the gate)
EdhrecSuggestion(info, all_syn) ==
    LET pct == InclusionPct(info)
        synergy_score == SynergyScoreOf(all_syn, info.key)
        extra == CappedSynergy(synergy_score) + (IF info.is_budget THEN 1000 ELSE 0)
        combined_score == Frac(100 * 100 * pct.num + extra * pct.den, pct.den)
        link == IF Truthy(info.scryfall) THEN info.scryfall
                ELSE SynergyLinkOf(all_syn, info.key)
    IN  IF FracLess(combined_score, [num |-> MIN_SCORE_THRESHOLD, den |-> 1]) THEN <<>>
        ELSE << [key       |-> info.key,
                 name      |-> info.name,
                 score     |-> combined_score,
                 inclusion |-> pct,
                 synergy   |-> synergy_score,
                 is_budget |-> info.is_budget,
                 source    |-> "EDHREC",
                 scryfall  |-> IF Truthy(link) THEN link
                               ELSE generate_scryfall_url(info.name)] >>

SynergySuggestion(syn_data, inv) ==
    LET combined_score == [num |-> CappedSynergy(syn_data.score), den |-> 1]
        name == inv[KeyIdx(inv, syn_data.key)].name
    IN  IF FracLess(combined_score, [num |-> MIN_SCORE_THRESHOLD, den |-> 1]) THEN <<>>
        ELSE << [key       |-> syn_data.key,
                 name      |-> name,
                 score     |-> combined_score,
                 inclusion |-> [num |-> 0, den |-> 1],
                 synergy   |-> syn_data.score,
                 is_budget |-> FALSE,
                 source    |-> "Sinergia",
                 scryfall  |-> IF Truthy(syn_data.scryfall) THEN syn_data.scryfall
                               ELSE generate_scryfall_url(name)] >>

\* list.sort(key=..., reverse=True): stable, descending.  An element goes
\* behind every element with a larger key and behind the elements with an
\* equal key that came before it.
SortDesc(s, keys) ==
    LET n == Len(s)
        ahead(i) == {j \in 1..n : \/ FracLess(keys[i], keys[j])
                                  \/ j < i /\ ~FracLess(keys[j], keys[i])}
    IN  [p \in 1..n |-> s[CHOOSE i \in 1..n : Cardinality(ahead(i)) = p - 1]]

\* (a mutant: an ascending stable sort read backwards, which reverses ties)
SortDescTiesReversed(s, keys) ==
    LET n == Len(s)
        ahead(i) == {j \in 1..n : \/ FracLess(keys[i], keys[j])
                                  \/ j > i /\ ~FracLess(keys[j], keys[i])}
    IN  [p \in 1..n |-> s[CHOOSE i \in 1..n : Cardinality(ahead(i)) = p - 1]]

\* key=lambda x: x["score"], key=lambda x: x["inclusion"]
ScoreKey(x)     == x.score
InclusionKey(x) == x.inclusion

SortByScoreDescReversedTies(s) ==
    SortDescTiesReversed(s, [i \in 1..Len(s) |-> ScoreKey(s[i])])

SortByScoreDesc(s) == SortDesc(s, [i \in 1..Len(s) |-> ScoreKey(s[i])])

SortByInclusionDesc(s) == SortDesc(s, [i \in 1..Len(s) |-> InclusionKey(s[i])])

\* s[:n]
Take(s, n) == SubSeq(s, 1, Min(n, Len(s)))

(***************************************************************************)
(* analyze_and_complete_deck, step by step.  Each remote call is one step. *)
(***************************************************************************)
NoResult == [suggestions |-> <<>>, key_cards_missing |-> <<>>]

\* the lookup outcome for a card: lookups.special[key] when listed, else
\* lookups.dflt
ScryFor(k) ==
    IF KeyIdx(lookups.special, k) = 0 THEN lookups.dflt
    ELSE lookups.special[KeyIdx(lookups.special, k)].resp

\* ', '.join(commander_colors) raises TypeError on an entry that is no str
JoinRaises(colors) ==
    Truthy(colors) /\ \E i \in 1..Len(colors.kids) : colors.kids[i].t # "str"

\* step 1: get_average_and_budget_deck(commander); time.sleep(RATE_LIMIT)
FetchAverageDeck ==
    /\ pc = "avg"
    /\ LET r == get_average_and_budget_deck(avg_resp) IN
       IF JoinRaises(commander_colors) \/ r.raised
       THEN pc' = "raised" /\ UNCHANGED edhrec_cards
       ELSE pc' = "syn" /\ edhrec_cards' = r.val
    /\ UNCHANGED <<xvars, cvars, fvars, dinputs, all_synergies, idx, cards_to_check, key_cards_missing,
                   ci, suggestions, result>>

\* step 2, one seed: get_card_synergies(card); accumulate; time.sleep(RATE_LIMIT)
FetchSynergies ==
    /\ pc = "syn"
    /\ idx <= SeedCount(CurrentCards(deck.cards))
    /\ LET r == get_card_synergies(CurrentCards(deck.cards)[idx], syn_resps[idx]) IN
       IF r.raised
       THEN pc' = "raised" /\ UNCHANGED <<all_synergies, idx>>
       ELSE /\ all_synergies' = Accumulate(all_synergies, r.val)
            /\ idx' = idx + 1
            /\ pc' = pc
    /\ UNCHANGED <<xvars, cvars, fvars, dinputs, edhrec_cards, cards_to_check, key_cards_missing,
                   ci, suggestions, result>>

\* step 3, the two loops that build key_cards_missing and cards_to_check
CompileCandidates ==
    /\ pc = "syn"
    /\ idx > SeedCount(CurrentCards(deck.cards))
    /\ LET current_cards_set ==
               {CurrentCards(deck.cards)[i] : i \in 1..Len(deck.cards)}
           e == EdhrecPass(edhrec_cards, current_cards_set, inventory)
       IN  IF e.raised
           THEN pc' = "raised" /\ UNCHANGED <<cards_to_check, key_cards_missing>>
           ELSE /\ key_cards_missing' = e.keys
                /\ cards_to_check' =
                       SynergyPass(all_synergies, edhrec_cards, current_cards_set,
                                   inventory, e.check)
                /\ pc' = "check"
    /\ UNCHANGED <<xvars, cvars, fvars, dinputs, edhrec_cards, all_synergies, idx, ci, suggestions, result>>

\* step 3, one candidate: the color check (a remote call and a sleep when the
\* commander's colors are known), then the score and the gate
CheckCandidate ==
    /\ pc = "check"
    /\ ci <= Len(cards_to_check)
    /\ LET c == cards_to_check[ci]
           verdict == IF Truthy(commander_colors)
                      THEN card_is_legal_in_colors(commander_colors, ScryFor(c.key))
                      ELSE [raised |-> FALSE, val |-> TRUE]
           made == IF c.source_type = "edhrec"
                   THEN EdhrecSuggestion(edhrec_cards[KeyIdx(edhrec_cards, c.key)],
                                         all_synergies)
                   ELSE SynergySuggestion(all_synergies[KeyIdx(all_synergies, c.key)],
                                          inventory)
       IN  IF verdict.raised
           THEN pc' = "raised" /\ UNCHANGED <<ci, suggestions>>
           ELSE /\ suggestions' = IF verdict.val THEN suggestions \o made ELSE suggestions
                /\ ci' = ci + 1
                /\ pc' = pc
    /\ UNCHANGED <<xvars, cvars, fvars, dinputs, edhrec_cards, all_synergies, idx, cards_to_check,
                   key_cards_missing, result>>

\* the two sorts and the return
SortAndReturn ==
    /\ pc = "check"
    /\ ci > Len(cards_to_check)
    /\ suggestions' = SortByScoreDesc(suggestions)
    /\ key_cards_missing' = SortByInclusionDesc(key_cards_missing)
    /\ result' = [suggestions       |-> Take(suggestions', MAX_SUGGESTIONS),
                  key_cards_missing |-> Take(key_cards_missing', KEY_CARDS_LIMIT)]
    /\ pc' = "done"
    /\ UNCHANGED <<xvars, cvars, fvars, dinputs, edhrec_cards, all_synergies, idx, cards_to_check, ci>>

DNext ==
    \/ FetchAverageDeck
    \/ FetchSynergies
    \/ CompileCandidates
    \/ CheckCandidate
    \/ SortAndReturn

DLocalsInit(p) ==
    /\ pc = p
    /\ edhrec_cards = <<>>
    /\ all_synergies = <<>>
    /\ idx = 1
    /\ cards_to_check = <<>>
    /\ key_cards_missing = <<>>
    /\ ci = 1
    /\ suggestions = <<>>
    /\ result = NoResult

DIdle ==
    /\ deck = [commander |-> <<>>, cards |-> <<>>]
    /\ inventory = <<>>
    /\ commander_colors = JNull
    /\ avg_resp = RespError
    /\ syn_resps = <<>>
    /\ lookups = [dflt |-> RespError, special |-> <<>>]
    /\ DLocalsInit("idle")

(***************************************************************************)
(* The worlds analyze_and_complete_deck runs in: a deck, an inventory, the *)
(* commander's colors and what the remote services answer.                 *)
(***************************************************************************)
BigDeckLen    == 22     \* the longest deck
BigKeyCards   == 24     \* the longest average deck of cards not owned
BigCandidates == 52     \* the longest average deck of owned cards

DigitChars == <<"0","1","2","3","4","5","6","7","8","9">>
\* a card name made of a letter and a two-digit number: "K07"
NameN(letter, i) == <<letter, DigitChars[((i \div 10) % 10) + 1], DigitChars[(i % 10) + 1]>>

N_Ab == <<"A","b">>
N_AB == <<"A","B">>
N_ab == <<"a","b">>
N_Cd == <<"C","d">>
N_cd == <<"c","d">>
N_Ef == <<"E","f">>
N_ef == <<"e","f">>
S_main == <<"m","a","i","n">>
S_Budget == <<"B","u","d","g","e","t">>

AvgCard(name, inc, nd, price) ==
    JDict(<<"name", "inclusion", "num_decks", "price">>,
          <<JStr(name), JNum(inc), JNum(nd), price>>)
AvgCardLinked(name, inc, nd, link) ==
    JDict(<<"name", "inclusion", "num_decks", "scryfall_uri">>,
          <<JStr(name), JNum(inc), JNum(nd), JStr(link)>>)
SynCard(name, syn) == JDict(<<"name", "synergy">>, <<JStr(name), JNum(syn)>>)
Section(tag, cards) == JDict(<<"tag", "cardviews">>, <<JStr(tag), JList(cards)>>)
Page(sections) ==
    JDict(<<"header", "container">>,
          <<JStr(S_main), JDict(<<"json_dict">>, <<JDict(<<"cardlists">>, <<JList(sections)>>)>>)>>)

InvOf(names) == [i \in 1..Len(names) |-> [key |-> Lower(names[i]), name |-> names[i]]]

LookupColors(cs) == RespJson(JDict(<<"color_identity">>, <<ColorList(cs)>>))
LookupLegal   == LookupColors(<<"U">>)
LookupIllegal == LookupColors(<<"U","R">>)

World(d, inv, colors, avg, syns, lk) ==
    [deck |-> [commander |-> S_Atraxa, cards |-> d], inventory |-> inv,
     commander_colors |-> colors, avg_resp |-> avg, syn_resps |-> syns, lookups |-> lk]

\* one average-deck card and one seed: every gate, at, above and below its bar
GateWorlds ==
    { World(<<N_Ab>>, InvOf(inv), ColorList(<<"U","B">>),
            RespJson(Page(<<Section(tag, <<AvgCard(N_Cd, f[1], f[2], JNum(price))>>)>>)),
            <<RespJson(Page(<<Section(S_main, <<SynCard(N_cd, s1), SynCard(N_Ef, s2)>>)>>))>>,
            [dflt |-> lk, special |-> <<>>]) :
        inv \in {<<>>, <<N_Cd, N_Ef>>, <<N_Ef>>},
        tag \in {S_main, S_Budget},
        f \in {<<0, 0>>, <<200, 10000>>, <<500, 10000>>, <<3000, 10000>>, <<4000, 10000>>},
        price \in {200, 201},
        s1 \in {0, 11, 50},
        s2 \in {10, 49, 50, 51, 600},
        lk \in {LookupLegal, LookupIllegal, RespStatus(404)} }

\* names that differ in case, cards repeated in the deck and in the payloads,
\* fetches that fail, colors unknown
CaseWorlds ==
    { World(d, InvOf(inv), colors,
            avg,
            [i \in 1..Len(d) |-> syn],
            [dflt |-> LookupLegal, special |-> <<[key |-> N_ef, resp |-> lk]>>]) :
        d \in {<<>>, <<N_AB>>, <<N_ab, N_Cd>>, <<N_Cd, N_Cd>>},
        inv \in {<<N_Ab, N_Ef>>, <<N_Cd, N_Ef, N_ab>>},
        colors \in {JNull, JList(<<>>), ColorList(<<"U">>)},
        avg \in {RespError, RespStatus(404), RespGarbled,
                 RespJson(Page(<<Section(S_main,
                     <<AvgCard(N_Ab, 5000, 10000, JNum(100)),
                       AvgCardLinked(N_ab, 6000, 9000, S_link1),
                       AvgCard(N_Ef, 300, 10000, JNum(100))>>),
                   Section(S_Budget,
                     <<AvgCardLinked(N_AB, 100, 20000, S_link2),
                       AvgCard(N_Cd, 9000, 10000, JNum(50))>>)>>)),
                 RespJson(Page(<<Section(S_main,
                     <<AvgCard(N_Cd, 4000, 10000, JNull),
                       AvgCard(N_Ab, 1000, 10000, JNull)>>)>>))},
        syn \in {RespError, RespStatus(403),
                 RespJson(Page(<<Section(S_main,
                     <<SynCard(N_Ef, 30), SynCard(N_ef, 20), SynCard(N_Ab, 5),
                       SynCard(N_Cd, 40)>>)>>))},
        lk \in {LookupLegal, LookupIllegal, RespError} }

\* decks around SEED_LIMIT cards: every seed reports a synergy for two cards,
\* every fifth fetch fails
LongDeckWorlds ==
    { World([i \in 1..n |-> NameN("D", i)], InvOf(<<N_Ef, N_Cd>>), JNull,
            RespJson(Page(<<Section(S_main, <<AvgCard(N_Cd, 300, 10000, JNum(100))>>)>>)),
            [i \in 1..n |->
                IF i % 5 = 0 THEN RespStatus(404)
                ELSE RespJson(Page(<<Section(S_main,
                         <<SynCard(N_Ef, 10 + i), SynCard(N_Cd, 12)>>)>>))],
            [dflt |-> LookupLegal, special |-> <<>>]) :
        n \in (SEED_LIMIT - 2)..BigDeckLen }

\* average decks with about KEY_CARDS_LIMIT cards that are not owned
ManyKeyCardWorlds ==
    { World(<<NameN("K", 2)>>, InvOf(<<N_Ef>>), JNull,
            RespJson(Page(<<Section(S_main,
                [i \in 1..n |-> AvgCard(NameN("K", i), 4000 + 100 * ((i * 7) % 5), 10000,
                                        JNum(IF i = 4 THEN 250 ELSE 150))])>>)),
            <<RespStatus(404)>>,
            [dflt |-> LookupLegal, special |-> <<>>]) :
        n \in KEY_CARDS_LIMIT..BigKeyCards }

\* average decks with about MAX_SUGGESTIONS owned cards, scores that tie
ManyCandidateWorlds ==
    { World(<<N_Ab>>, InvOf([i \in 1..n |-> NameN("C", i)]), colors,
            RespJson(Page(<<Section(S_main,
                [i \in 1..n |-> AvgCard(NameN("c", i), 1000 + 100 * ((i * 3) % 7), 10000,
                                        JNum(100))])>>)),
            <<RespJson(Page(<<Section(S_main, <<SynCard(NameN("c", 5), 100)>>)>>))>>,
            [dflt |-> LookupLegal,
             special |-> <<[key |-> NameN("c", 3), resp |-> LookupIllegal]>>]) :
        n \in (MAX_SUGGESTIONS - 1)..BigCandidates,
        colors \in {JNull, ColorList(<<"U">>)} }

Worlds == GateWorlds \cup CaseWorlds \cup LongDeckWorlds \cup ManyKeyCardWorlds
              \cup ManyCandidateWorlds

DInit ==
    /\ \E w \in Worlds :
          /\ deck = w.deck
          /\ inventory = w.inventory
          /\ commander_colors = w.commander_colors
          /\ avg_resp = w.avg_resp
          /\ syn_resps = w.syn_resps
          /\ lookups = w.lookups
    /\ DLocalsInit("avg")

(***************************************************************************)
(* The inventory file and its indexes                                      *)
(*   complete_deck.py: load_inventory                                      *)
(*   find_best_commanders.py: inv_unique, inv_map, inv_source_map          *)
(* A row is [name, quantity, source]; quantities are whole numbers.        *)
(***************************************************************************)
RowsOfName(rows, k) == {i \in 1..Len(rows) : Lower(rows[i].name) = k}

RECURSIVE SumQuantity(_, _)
SumQuantity(rows, is) ==
    IF is = {} THEN 0
    ELSE LET i == CHOOSE j \in is : TRUE
         IN  rows[i].quantity + SumQuantity(rows, is \ {i})

FirstOf(is) == CHOOSE i \in is : \A j \in is : i <= j

\* for _, row in inv.iterrows(): create the entry, add the quantity, append the label
load_inventory(rows) ==
    LET F[n \in 0..Len(rows)] ==
            IF n = 0 THEN <<>>
            ELSE LET row == rows[n]
                     name_lower == Lower(row.name)
                     m0 == IF KeyIdx(F[n - 1], name_lower) = 0
                           THEN Append(F[n - 1], [key |-> name_lower, name |-> row.name,
                                                  quantity |-> 0, collections |-> <<>>])
                           ELSE F[n - 1]
                     i == KeyIdx(m0, name_lower)
                 IN  [m0 EXCEPT ![i].quantity = @ + row.quantity,
                                ![i].collections = Append(@, row.source)]
    IN F[Len(rows)]

\* inv.groupby("name_lower").agg({"quantity": "sum", "name": "first"}): one
\* row per name_lower, in ascending order of name_lower
GroupByNameLower(rows) ==
    LET keys == SortedStrs({Lower(rows[i].name) : i \in 1..Len(rows)}) IN
    [g \in 1..Len(keys) |->
        [name_lower |-> keys[g],
         quantity   |-> SumQuantity(rows, RowsOfName(rows, keys[g])),
         name       |-> rows[FirstOf(RowsOfName(rows, keys[g]))].name]]

InvMapOf(unique) ==
    [g \in 1..Len(unique) |-> [key |-> unique[g].name_lower, quantity |-> unique[g].quantity]]

\* "; ".join(sorted(set(map(str, xs)))): the labels joined, kept here as the
\* sequence of the joined parts
InvSourceMapOf(rows) ==
    LET keys == SortedStrs({Lower(rows[i].name) : i \in 1..Len(rows)}) IN
    [g \in 1..Len(keys) |->
        [key     |-> keys[g],
         sources |-> SortedStrs({rows[i].source : i \in RowsOfName(rows, keys[g])})]]

MaxRows == 3        \* the most rows of the inventory file

L_SetA == <<"S","e","t","A">>
L_SetB == <<"S","e","t","B">>

IRowVals == [name : {S_a, S_A, S_b}, quantity : {1, 2}, source : {L_SetA, L_SetB}]

IInit ==
    /\ irows \in UNION {[1..n -> IRowVals] : n \in 1..MaxRows}
    /\ ipc = "start"
    /\ inv_map_cd = <<>>
    /\ inv_unique = <<>>
    /\ inv_map = <<>>
    /\ inv_source_map = <<>>

IIdle ==
    /\ irows = <<>>
    /\ ipc = "idle"
    /\ inv_map_cd = <<>>
    /\ inv_unique = <<>>
    /\ inv_map = <<>>
    /\ inv_source_map = <<>>

\* complete_deck.py reads the file
LoadInventory ==
    /\ ipc = "start"
    /\ inv_map_cd' = load_inventory(irows)
    /\ ipc' = "loaded"
    /\ UNCHANGED <<irows, inv_unique, inv_map, inv_source_map, xvars, cvars, dvars, avars, evars, gvars>>

\* find_best_commanders.py reads the file (at import)
BuildInventoryMaps ==
    /\ ipc = "start"
    /\ inv_unique' = GroupByNameLower(irows)
    /\ inv_map' = InvMapOf(inv_unique')
    /\ inv_source_map' = InvSourceMapOf(irows)
    /\ ipc' = "loaded"
    /\ UNCHANGED <<irows, inv_map_cd, xvars, cvars, dvars, avars, evars, gvars>>

INext == LoadInventory \/ BuildInventoryMaps


(***************************************************************************)
(* find_best_commanders.py: fetch_card_json, process_card,                 *)
(* analyze_inventory.  Percentages are exact fractions here (floats in     *)
(* the program).                                                           *)
(***************************************************************************)
MIN_MATCHES == 10

S_plains   == <<"p","l","a","i","n","s">>
S_island   == <<"i","s","l","a","n","d">>
S_swamp    == <<"s","w","a","m","p">>
S_mountain == <<"m","o","u","n","t","a","i","n">>
S_forest   == <<"f","o","r","e","s","t">>
S_wastes   == <<"w","a","s","t","e","s">>
S_Forest   == <<"F","o","r","e","s","t">>

BASIC_LANDS == {S_plains, S_island, S_swamp, S_mountain, S_forest, S_wastes}

\* the payload, or None on any failure
fetch_card_json(resp) == IF Fetched(resp) THEN resp.data ELSE JNull

FracAdd(a, b) == Frac(a.num * b.den + b.num * a.den, a.den * b.den)

\* process_card: [skipped], or the two extractions of the page; raised when
\* either extraction raises
process_card(card, card_lower, resp) ==
    IF card_lower \in BASIC_LANDS \/ ~Fetched(resp)
    THEN [raised |-> FALSE, skipped |-> TRUE, commanders |-> <<>>, synergies |-> <<>>]
    ELSE LET coms == extract_commanders_from_card_json(fetch_card_json(resp), card)
             syns == extract_synergy_cards(fetch_card_json(resp), card)
         IN  [raised |-> coms.raised \/ syns.raised, skipped |-> FALSE,
              commanders |-> coms.val, synergies |-> syns.val]

\* if info["matches"] < MIN_MATCHES: continue
BelowMinMatches(info) == info.matches < MIN_MATCHES

\* one commander record of a card added to commander_stats
AddCommanderRecord(stats, card, c) ==
    LET s0 == IF KeyIdx(stats, c.commander) = 0
              THEN Append(stats, [key |-> c.commander, matches |-> 0,
                                  percent_sum |-> Frac(0, 1), percent_count |-> 0,
                                  cards |-> <<>>])
              ELSE stats
        i == KeyIdx(s0, c.commander)
    IN  [s0 EXCEPT ![i].cards = Append(@, [name |-> card, percent |-> c.percent,
                                             source |-> "edhrec", scryfall |-> c.scryfall]),
                   ![i].matches = @ + 1,
                   ![i].percent_sum = FracAdd(@, Frac(c.percent.num, c.percent.den)),
                   ![i].percent_count = @ + 1]

AddCommanderRecords(stats, card, coms) ==
    LET F[n \in 0..Len(coms)] ==
            IF n = 0 THEN stats ELSE AddCommanderRecord(F[n - 1], card, coms[n])
    IN F[Len(coms)]

\* the synergy cards of a page that the inventory holds; .lower() raises on
\* a name that is no str
AddSynergies(recs, card, syns, owned) ==
    LET F[n \in 0..Len(syns)] ==
            IF n = 0 THEN [raised |-> FALSE, val |-> recs]
            ELSE IF F[n - 1].raised THEN F[n - 1]
            ELSE IF syns[n].card.t # "str" THEN [raised |-> TRUE, val |-> recs]
            ELSE IF Lower(syns[n].card.s) \in owned
                 THEN [F[n - 1] EXCEPT !.val = Append(@,
                          [card_owned |-> card, synergy_card |-> syns[n].card,
                           synergy_score |-> syns[n].synergy, both_owned |-> TRUE])]
                 ELSE F[n - 1]
    IN F[Len(syns)]

\* rows.append({...}) of one commander
StatsRow(info) ==
    [commander |-> info.key, matches |-> info.matches,
     avg_percent |-> Frac(info.percent_sum.num, info.percent_sum.den * info.percent_count),
     cards |-> info.cards]

\* the rows of the commanders that pass the gate, in the order of the dict
RowsOf(stats) ==
    LET F[n \in 0..Len(stats)] ==
            IF n = 0 THEN <<>>
            ELSE IF BelowMinMatches(stats[n]) THEN F[n - 1]
            ELSE Append(F[n - 1], StatsRow(stats[n]))
    IN F[Len(stats)]

\* row a goes before row b: matches descending, then avg_percent descending
RankBefore(a, b) ==
    \/ a.matches > b.matches
    \/ a.matches = b.matches /\ FracLess(b.avg_percent, a.avg_percent)

\* df.sort_values(by=["matches", "avg_percent"], ascending=[False, False])
RECURSIVE SortRanking(_)
SortRanking(rows) ==
    IF rows = <<>> THEN <<>>
    ELSE LET first == CHOOSE i \in 1..Len(rows) :
                         /\ \A j \in 1..Len(rows) : ~RankBefore(rows[j], rows[i])
                         /\ \A j \in 1..(i - 1) : RankBefore(rows[j], rows[i])
                                                  \/ RankBefore(rows[i], rows[j])
             rest == [k \in 1..(Len(rows) - 1) |-> IF k < first THEN rows[k] ELSE rows[k + 1]]
         IN  <<rows[first]>> \o SortRanking(rest)

\* ---- the runs: an inventory of cards and the page of each
MaxCards == 11

CardNamed(i) == <<"K", LowerLetters[i]>>

ACmdNode(nm, inc, pot) ==
    JDict(<<"url", "name", "inclusion", "potential_decks">>,
          <<JStr(S_cmdurl), JStr(nm), JNum(inc), JNum(pot)>>)

\* the page of a card: the commander named once, named in two lists, two
\* commanders, or the commander at exactly a fifth of the decks
APage(kind, card) ==
    CASE kind = "once"  -> JDict(<<"name", "top">>,
                               <<JStr(card), JList(<<ACmdNode(S_Atraxa, 300, 500)>>)>>)
      [] kind = "twice" -> JDict(<<"name", "top", "new">>,
                               <<JStr(card), JList(<<ACmdNode(S_Atraxa, 300, 500)>>),
                                 JList(<<ACmdNode(S_Atraxa, 300, 500)>>)>>)
      [] kind = "two"   -> JDict(<<"name", "top", "syn">>,
                               <<JStr(card),
                                 JList(<<ACmdNode(S_Zur, 100, 300), ACmdNode(S_Atraxa, 400, 500)>>),
                                 XSection(JList(<<JDict(<<"name", "synergy">>,
                                                        <<JStr(CardNamed(1)), JNum(30)>>)>>))>>)
      [] kind = "low"   -> JDict(<<"name", "top">>,
                               <<JStr(card), JList(<<ACmdNode(S_Atraxa, 100, 500),
                                                     ACmdNode(S_Zur, 300, 500)>>)>>)

AKinds == {"once", "twice", "two", "low"}

ACardCounts == {3, 5, MIN_MATCHES - 1, MIN_MATCHES, MaxCards}

\* the inventory of a run: n cards, with or without a basic land
AInventory(n, land) ==
    GroupByNameLower(
        [i \in 1..n |-> [name |-> CardNamed(i), quantity |-> 1, source |-> L_SetA]]
        \o (IF land THEN <<[name |-> S_Forest, quantity |-> 4, source |-> L_SetA]>> ELSE <<>>))

\* the pages of a run: every card's page of one kind, but the page of the
\* cards in `other` of the second kind and the fetch of card `fail` a 404
APages(inv, kind, kind2, other, fail) ==
    [i \in 1..Len(inv) |->
        IF i = fail THEN RespStatus(404)
        ELSE RespJson(APage(IF i \in other THEN kind2 ELSE kind, inv[i].name))]

AInit ==
    /\ \E n \in ACardCounts, land \in BOOLEAN, kind \in AKinds, kind2 \in AKinds,
          fail \in {0, 2}, split \in {0, 2} :
          /\ a_inv = AInventory(n, land)
          /\ a_pages = APages(a_inv, kind, kind2, 1..split, fail)
    /\ apc = "loop"
    /\ aidx = 1
    /\ commander_stats = <<>>
    /\ synergy_recommendations = <<>>
    /\ skipped_cards = <<>>
    /\ ranked = <<>>

AIdle ==
    /\ a_inv = <<>>
    /\ a_pages = <<>>
    /\ apc = "idle"
    /\ aidx = 1
    /\ commander_stats = <<>>
    /\ synergy_recommendations = <<>>
    /\ skipped_cards = <<>>
    /\ ranked = <<>>

AOwned == {a_inv[i].name_lower : i \in 1..Len(a_inv)}

\* one pass of `for idx, row in inv_unique.iterrows()`
AnalyzeCard ==
    /\ apc = "loop"
    /\ aidx <= Len(a_inv)
    /\ LET card == a_inv[aidx].name
           res  == process_card(card, a_inv[aidx].name_lower, a_pages[aidx])
           syn  == AddSynergies(synergy_recommendations, card, res.synergies, AOwned)
       IN  IF res.raised \/ syn.raised
           THEN /\ apc' = "raised"
                /\ UNCHANGED <<aidx, commander_stats, synergy_recommendations, skipped_cards>>
           ELSE /\ apc' = "loop"
                /\ aidx' = aidx + 1
                /\ IF res.skipped
                   THEN /\ skipped_cards' = Append(skipped_cards, card)
                        /\ UNCHANGED <<commander_stats, synergy_recommendations>>
                   ELSE /\ commander_stats' =
                               AddCommanderRecords(commander_stats, card, res.commanders)
                        /\ synergy_recommendations' = syn.val
                        /\ UNCHANGED skipped_cards
    /\ UNCHANGED <<a_inv, a_pages, ranked, xvars, cvars, dvars, ivars, evars, gvars>>

\* the rows, the DataFrame and its sort; sort_values raises KeyError on a
\* DataFrame without rows (it has no columns)
RankCommanders ==
    /\ apc = "loop"
    /\ aidx > Len(a_inv)
    /\ IF RowsOf(commander_stats) = <<>>
       THEN apc' = "raised" /\ UNCHANGED ranked
       ELSE apc' = "done" /\ ranked' = SortRanking(RowsOf(commander_stats))
    /\ UNCHANGED <<a_inv, a_pages, aidx, commander_stats, synergy_recommendations,
                   skipped_cards, xvars, cvars, dvars, ivars, evars, gvars>>

ANext == AnalyzeCard \/ RankCommanders


(***************************************************************************)
(* find_best_commanders.py: export_with_formatting, up to the sorted       *)
(* DataFrame it writes.  A percent is a fraction, or NoPercent for None.   *)
(***************************************************************************)
NoPercent == [num |-> 0, den |-> 0]

NotNa(percent) == percent.den # 0

\* inv_source_map.get(lower, "")
SourcesOf(lower) ==
    IF KeyIdx(inv_source_map, lower) = 0 THEN <<>>
    ELSE inv_source_map[KeyIdx(inv_source_map, lower)].sources

\* ---- 1. the cards of every row of df
FlattenRow(row) ==
    [i \in 1..Len(row.cards) |->
        [commander   |-> row.commander,
         card        |-> row.cards[i].name,
         percent     |-> row.cards[i].percent,
         scryfall    |-> row.cards[i].scryfall,
         source      |-> "edhrec",
         collections |-> SourcesOf(Lower(row.cards[i].name))]]

FlattenDf(df) ==
    LET F[n \in 0..Len(df)] == IF n = 0 THEN <<>> ELSE F[n - 1] \o FlattenRow(df[n])
    IN F[Len(df)]

\* next((x for x in flat if ...), None): the index of the first row of the
\* commander with the card, 0 when there is none
AlreadyIdx(fl, commander, lower) ==
    LET hit == {i \in 1..Len(fl) : fl[i].commander = commander /\ Lower(fl[i].card) = lower}
    IN  IF hit = {} THEN 0 ELSE CHOOSE i \in hit : \A j \in hit : i <= j

\* ---- 2. one card of the average deck of a commander
AddAverageCard(fl, commander, card, resp) ==
    LET lower == Lower(card) IN
    IF KeyIdx(inv_map, lower) = 0 THEN fl
    ELSE LET scry    == find_scryfall_for_card(fetch_card_json(resp), card)
             already == AlreadyIdx(fl, commander, lower)
         IN  IF already # 0 THEN [fl EXCEPT ![already].source = "both"]
             ELSE Append(fl, [commander   |-> commander,
                              card        |-> card,
                              percent     |-> NoPercent,
                              scryfall    |-> scry.val,
                              source      |-> "average",
                              collections |-> SourcesOf(lower)])

\* the network side of one pass of the loop over the commanders:
\* fetch_average_deck, then fetch_card_json and time.sleep for every owned card
RECURSIVE NetOfCards(_)
NetOfCards(avg_cards) ==
    IF avg_cards = <<>> THEN <<>>
    ELSE (IF KeyIdx(inv_map, Lower(Head(avg_cards))) = 0 THEN <<>> ELSE <<"call", "sleep">>)
         \o NetOfCards(Tail(avg_cards))

NetOfAverageDeck(avg_cards) == <<"call">> \o NetOfCards(avg_cards)

\* (a mutant: the average-deck rows ahead of the EDHREC rows)
get_sort_priority_average_first(row) ==
    LET percent == IF NotNa(row.percent) THEN Frac(row.percent.num, row.percent.den)
                   ELSE Frac(0, 1)
        neg == [num |-> 0 - percent.num, den |-> percent.den]
    IN  IF row.source = "both" THEN [tier |-> 1, neg |-> neg]
        ELSE IF row.source = "edhrec" /\ FracLess(Frac(1, 5), percent)
             THEN [tier |-> 3, neg |-> neg]
        ELSE IF row.source = "average" THEN [tier |-> 2, neg |-> Frac(0, 1)]
        ELSE [tier |-> 4, neg |-> neg]

\* the pair (tier, -percent)
get_sort_priority(row) ==
    LET percent == IF NotNa(row.percent) THEN Frac(row.percent.num, row.percent.den)
                   ELSE Frac(0, 1)
        neg == [num |-> 0 - percent.num, den |-> percent.den]
    IN  IF row.source = "both" THEN [tier |-> 1, neg |-> neg]
        ELSE IF row.source = "edhrec" /\ FracLess(Frac(1, 5), percent)
             THEN [tier |-> 2, neg |-> neg]
        ELSE IF row.source = "average" THEN [tier |-> 3, neg |-> Frac(0, 1)]
        ELSE [tier |-> 4, neg |-> neg]

\* df2.groupby("commander").size() of the commander of a row
CommanderTotal(fl, commander) == Cardinality({i \in 1..Len(fl) : fl[i].commander = commander})

\* by=["commander_total", "commander", "sort_key"], ascending=[False, True, True]
ExportBefore(fl, a, b) ==
    LET ta == CommanderTotal(fl, a.commander)
        tb == CommanderTotal(fl, b.commander)
        ka == get_sort_priority(a)
        kb == get_sort_priority(b)
    IN  \/ ta > tb
        \/ ta = tb /\ StrLess(a.commander.s, b.commander.s)
        \/ ta = tb /\ a.commander = b.commander /\ ka.tier < kb.tier
        \/ ta = tb /\ a.commander = b.commander /\ ka.tier = kb.tier
              /\ FracLess(ka.neg, kb.neg)

\* sort_values: the rows in the order of their keys, equal keys as they were
RECURSIVE SortExport(_, _)
SortExport(fl, rows) ==
    IF rows = <<>> THEN <<>>
    ELSE LET least == {i \in 1..Len(rows) :
                          \A j \in 1..Len(rows) : ~ExportBefore(fl, rows[j], rows[i])}
             first == CHOOSE i \in least : \A j \in least : i <= j
             rest  == [k \in 1..(Len(rows) - 1) |-> IF k < first THEN rows[k] ELSE rows[k + 1]]
         IN  <<rows[first]>> \o SortExport(fl, rest)

\* ---- the runs
MaxAvgCards == 2    \* the most cards of an average deck

N_Gh == <<"G","h">>
N_Ij == <<"I","j">>     \* a card the inventory does not hold

EInvRows ==
    <<[name |-> N_Ab, quantity |-> 1, source |-> L_SetA],
      [name |-> N_Cd, quantity |-> 1, source |-> L_SetB],
      [name |-> N_Ef, quantity |-> 2, source |-> L_SetA],
      [name |-> N_Gh, quantity |-> 1, source |-> L_SetB],
      [name |-> N_ab, quantity |-> 1, source |-> L_SetB]>>

ECard(nm, n, d) ==
    [name |-> nm, percent |-> [num |-> n, den |-> d], source |-> "edhrec",
     scryfall |-> JStr(S_link1)]

\* the cards attached to a commander (this function is given any DataFrame:
\* a percentage of exactly a fifth is among them)
ECardLists ==
    {<<ECard(N_Cd, 300, 1000)>>,
     <<ECard(N_Ab, 300, 1000), ECard(N_Cd, 500, 1000)>>,
     <<ECard(N_Cd, 200, 1000), ECard(N_Ab, 300, 1000), ECard(N_Gh, 500, 1000)>>,
     <<ECard(N_Cd, 500, 1000), ECard(N_Ab, 500, 1000)>>}

ECommanders == {S_Atraxa, S_Zur}

\* a row of the DataFrame, as analyze_inventory builds it
EDfRow(com, cards) ==
    LET F[n \in 0..Len(cards)] ==
            IF n = 0 THEN <<>>
            ELSE AddCommanderRecord(F[n - 1], cards[n].name,
                     [commander |-> JStr(com), percent |-> cards[n].percent,
                      scryfall |-> cards[n].scryfall])
    IN StatsRow(F[Len(cards)][1])

EDfs ==
    {<<EDfRow(c, l)>> : c \in ECommanders, l \in ECardLists}
    \cup {<<EDfRow(cc[1], l1), EDfRow(cc[2], l2)>> :
             cc \in {p \in ECommanders \X ECommanders : p[1] # p[2]},
             l1 \in ECardLists, l2 \in ECardLists}

\* fetch_average_deck: sorted(cards)
EAvgDecks == {SortedStrs(S) : S \in {T \in SUBSET {N_ab, N_Ab, N_Ef, N_Ij} : Cardinality(T) <= MaxAvgCards}}

EPage(card) == RespJson(JDict(<<"name", "scryfall_uri">>, <<JStr(card), JStr(S_link2)>>))

EInit ==
    /\ e_df \in EDfs
    /\ e_avg \in [1..Len(e_df) -> EAvgDecks]
    /\ e_fetch \in BOOLEAN
    /\ epc = "flat"
    /\ eidx = 1
    /\ flat = <<>>
    /\ df2 = <<>>
    /\ e_net = <<>>
    \* the module has read the inventory file
    /\ irows = EInvRows
    /\ ipc = "loaded"
    /\ inv_map_cd = <<>>
    /\ inv_unique = GroupByNameLower(EInvRows)
    /\ inv_map = InvMapOf(inv_unique)
    /\ inv_source_map = InvSourceMapOf(EInvRows)

EIdle ==
    /\ e_df = <<>>
    /\ e_avg = <<>>
    /\ e_fetch = FALSE
    /\ epc = "idle"
    /\ eidx = 1
    /\ flat = <<>>
    /\ df2 = <<>>
    /\ e_net = <<>>

ExportEdhrecCards ==
    /\ epc = "flat"
    /\ flat' = FlattenDf(e_df)
    /\ epc' = "avg"
    /\ UNCHANGED <<e_df, e_avg, e_fetch, eidx, df2, e_net, xvars, cvars, dvars, ivars, avars, gvars>>

\* one pass of the loop over the commanders: its average deck
ExportAverageDeck ==
    /\ epc = "avg"
    /\ eidx <= Len(e_df)
    /\ LET avg_cards == e_avg[eidx]
           F[n \in 0..Len(avg_cards)] ==
               IF n = 0 THEN flat
               ELSE AddAverageCard(F[n - 1], e_df[eidx].commander, avg_cards[n],
                        IF e_fetch THEN EPage(avg_cards[n]) ELSE RespStatus(404))
       IN  /\ flat' = F[Len(avg_cards)]
           /\ e_net' = e_net \o NetOfAverageDeck(avg_cards)
    /\ eidx' = eidx + 1
    /\ UNCHANGED <<e_df, e_avg, e_fetch, epc, df2, xvars, cvars, dvars, ivars, avars, gvars>>

\* df2, its sort keys and the sort
ExportSort ==
    /\ epc = "avg"
    /\ eidx > Len(e_df)
    /\ df2' = SortExport(flat, flat)
    /\ epc' = "done"
    /\ UNCHANGED <<e_df, e_avg, e_fetch, eidx, flat, e_net, xvars, cvars, dvars, ivars, avars, gvars>>

ENext == ExportEdhrecCards \/ ExportAverageDeck \/ ExportSort


(***************************************************************************)
(* Python str operations on lines of text                                  *)
(***************************************************************************)
Whitespace == {" ", "\t", "\n"}

IsDigitChar(c) == \E i \in 1..Len(DigitChars) : DigitChars[i] = c

\* \w: a letter, a digit or the underscore
IsWordChar(c) ==
    \/ IsDigitChar(c)
    \/ c = "_"
    \/ \E i \in 1..Len(LowerLetters) : LowerLetters[i] = c \/ UpperLetters[i] = c

RECURSIVE LStrip(_)
LStrip(s) == IF s # <<>> /\ Head(s) \in Whitespace THEN LStrip(Tail(s)) ELSE s

RECURSIVE RStrip(_)
RStrip(s) ==
    IF s # <<>> /\ s[Len(s)] \in Whitespace THEN RStrip(SubSeq(s, 1, Len(s) - 1)) ELSE s

\* s.strip()
Strip(s) == RStrip(LStrip(s))

\* s.startswith(p)
StartsWith(s, p) == Len(p) <= Len(s) /\ SubSeq(s, 1, Len(p)) = p

\* the first index of s at or after i whose character is in the set, or Len(s) + 1
RECURSIVE FindIn(_, _, _)
FindIn(s, i, set) ==
    IF i > Len(s) \/ s[i] \in set THEN i ELSE FindIn(s, i + 1, set)

\* s.split(None, 1): the first word and, when there is one, the rest
SplitFirstWord(s) ==
    LET a == LStrip(s) IN
    IF a = <<>> THEN <<>>
    ELSE LET k    == FindIn(a, 1, Whitespace)
             rest == LStrip(SubSeq(a, k, Len(a)))
         IN  IF rest = <<>> THEN <<SubSeq(a, 1, k - 1)>>
             ELSE <<SubSeq(a, 1, k - 1), rest>>

\* s.isdigit()
IsDigitStr(s) == s # <<>> /\ \A i \in 1..Len(s) : IsDigitChar(s[i])

\* s.split(":", 1)[1] of a str that holds a colon
AfterFirstColon(s) == SubSeq(s, FindIn(s, 1, {":"}) + 1, Len(s))

\* the longest run of word characters at the head of s
RECURSIVE DropWord(_)
DropWord(s) == IF s # <<>> /\ IsWordChar(Head(s)) THEN DropWord(Tail(s)) ELSE s

\* re.sub(r'#\w+', '', s)
RECURSIVE RemoveWordTags(_)
RemoveWordTags(s) ==
    IF s = <<>> THEN <<>>
    ELSE IF Head(s) = "#" /\ Len(s) >= 2 /\ IsWordChar(s[2])
         THEN RemoveWordTags(DropWord(Tail(s)))
         ELSE <<Head(s)>> \o RemoveWordTags(Tail(s))

\* every character of the set taken out of s
RECURSIVE RemoveChars(_, _)
RemoveChars(s, set) ==
    IF s = <<>> THEN <<>>
    ELSE IF Head(s) \in set THEN RemoveChars(Tail(s), set)
    ELSE <<Head(s)>> \o RemoveChars(Tail(s), set)

(***************************************************************************)
(* complete_deck.py: parse_partial_decklists                               *)
(* The marker glyphs are the star, the flame and the square brackets; the  *)
(* files of the model hold the brackets.                                   *)
(***************************************************************************)
S_HdrSpaced == <<"#"," ","C","o","m","a","n","d","a","n","t","e",":">>
S_HdrTight  == <<"#","C","o","m","a","n","d","a","n","t","e",":">>

DeckMarkers == {"[", "]"}

IsCommanderHeader(line) == StartsWith(line, S_HdrSpaced) \/ StartsWith(line, S_HdrTight)

\* parts = line.split(None, 1): the name, or skip (`continue`)
CardNameOfLine(line) ==
    LET parts == SplitFirstWord(line) IN
    IF Len(parts) = 2 /\ IsDigitStr(parts[1]) THEN [skip |-> FALSE, name |-> parts[2]]
    ELSE IF Len(parts) = 1 THEN [skip |-> FALSE, name |-> parts[1]]
    ELSE [skip |-> TRUE, name |-> <<>>]

\* the two re.sub and the strip
CleanDeckCardName(name) == Strip(RemoveChars(RemoveWordTags(name), DeckMarkers))

NoDeck == [open |-> FALSE, commander |-> <<>>, cards |-> <<>>]

\* one line of the file: st is [decks, current]
ParseDeckLine(st, raw) ==
    LET line == Strip(raw) IN
    IF IsCommanderHeader(line)
    THEN [decks   |-> IF st.current.open
                      THEN Append(st.decks, [commander |-> st.current.commander,
                                             cards |-> st.current.cards])
                      ELSE st.decks,
          current |-> [open |-> TRUE, commander |-> Strip(AfterFirstColon(line)),
                       cards |-> <<>>]]
    ELSE IF line # <<>> /\ ~StartsWith(line, <<"#">>) /\ st.current.open
    THEN LET nm == CardNameOfLine(line)
             card_name == CleanDeckCardName(nm.name)
         IN  IF nm.skip \/ card_name = <<>> THEN st
             ELSE [st EXCEPT !.current.cards = Append(@, card_name)]
    ELSE st

parse_partial_decklists(lines) ==
    LET F[n \in 0..Len(lines)] ==
            IF n = 0 THEN [decks |-> <<>>, current |-> NoDeck]
            ELSE ParseDeckLine(F[n - 1], lines[n])
        end == F[Len(lines)]
    IN  IF end.current.open
        THEN Append(end.decks, [commander |-> end.current.commander,
                                cards |-> end.current.cards])
        ELSE end.decks

\* ---- the files
MaxDeckLines == 3

S_SolRing == <<"S","o","l"," ","R","i","n","g">>
S_Sol     == <<"S","o","l">>
NL        == <<"\n">>

DeckFileLines ==
    {S_HdrSpaced \o <<" ">> \o S_Atraxa \o NL,
     S_HdrTight \o S_Zur \o NL,
     <<"#"," ","x">> \o NL,
     NL,
     <<"1"," ">> \o S_SolRing \o NL,
     S_SolRing \o NL,
     S_Sol \o NL,
     <<"2"," ">> \o S_SolRing \o <<" ","#","T","1">> \o NL,
     <<"1"," ">> \o S_Sol \o <<" ","[","]">> \o NL}

PInit ==
    /\ dl_lines \in UNION {[1..n -> DeckFileLines] : n \in 1..MaxDeckLines}
    /\ dl_decks = <<>>
    /\ dl_pc = "start"

PIdle ==
    /\ dl_lines = <<>>
    /\ dl_decks = <<>>
    /\ dl_pc = "idle"

ParsePartialDecklists ==
    /\ dl_pc = "start"
    /\ dl_decks' = parse_partial_decklists(dl_lines)
    /\ dl_pc' = "parsed"
    /\ UNCHANGED <<dl_lines, xvars, cvars, dvars, ivars, avars, evars, tvars, hvars>>

PNext == ParsePartialDecklists


(***************************************************************************)
(* add_collection_tags.py: load_inventory, sanitize_collection_name,       *)
(* clean_card_name, process_file, process_with_all_collections             *)
(***************************************************************************)
\* card_collections: per name_lower the labels of its rows, each once, in
\* the order of the rows
load_inventory_collections(rows) ==
    LET F[n \in 0..Len(rows)] ==
            IF n = 0 THEN <<>>
            ELSE LET name_lower == Lower(rows[n].name)
                     collection == rows[n].source
                     m0 == IF KeyIdx(F[n - 1], name_lower) = 0
                           THEN Append(F[n - 1], [key |-> name_lower, collections |-> <<>>])
                           ELSE F[n - 1]
                     i == KeyIdx(m0, name_lower)
                 IN  IF \E c \in 1..Len(m0[i].collections) : m0[i].collections[c] = collection
                     THEN m0
                     ELSE [m0 EXCEPT ![i].collections = Append(@, collection)]
    IN F[Len(rows)]

\* every character of the set replaced by the character `by`
ReplaceChars(s, set, by) == [i \in 1..Len(s) |-> IF s[i] \in set THEN by ELSE s[i]]

\* s.split(): the words of s
RECURSIVE SplitWords(_)
SplitWords(s) ==
    LET a == LStrip(s) IN
    IF a = <<>> THEN <<>>
    ELSE LET k == FindIn(a, 1, Whitespace)
         IN  <<SubSeq(a, 1, k - 1)>> \o SplitWords(SubSeq(a, k, Len(a)))

\* sep.join(words)
RECURSIVE JoinWith(_, _)
JoinWith(words, sep) ==
    IF words = <<>> THEN <<>>
    ELSE IF Len(words) = 1 THEN words[1]
    ELSE words[1] \o sep \o JoinWith(Tail(words), sep)

\* sanitize_collection_name with the period among the removed characters
sanitize_collection_name_no_period(collection) ==
    JoinWith(SplitWords(ReplaceChars(RemoveChars(collection, {",", "'", ":", "."}),
                                     {"/", "-"}, "_")),
             <<"_">>)

sanitize_collection_name(collection) ==
    JoinWith(SplitWords(ReplaceChars(RemoveChars(collection, {",", "'", ":"}),
                                     {"/", "-"}, "_")),
             <<"_">>)

\* the match of ^\d+\s+ at the head of the line: its length, 0 without one
QuantityPrefixLen(line) ==
    LET d == FindIn(line, 1, {c \in {line[i] : i \in 1..Len(line)} : ~IsDigitChar(c)})
        w == FindIn(line, d, {c \in {line[i] : i \in 1..Len(line)} : c \notin Whitespace})
    IN  IF d > 1 /\ w > d THEN w - 1 ELSE 0

\* the longest run of non-whitespace characters at the head of s
RECURSIVE DropNonSpace(_)
DropNonSpace(s) == IF s # <<>> /\ Head(s) \notin Whitespace THEN DropNonSpace(Tail(s)) ELSE s

\* re.sub(r'#\S+', '', s)
RECURSIVE RemoveTags(_)
RemoveTags(s) ==
    IF s = <<>> THEN <<>>
    ELSE IF Head(s) = "#" /\ Len(s) >= 2 /\ s[2] \notin Whitespace
         THEN RemoveTags(DropNonSpace(Tail(s)))
         ELSE <<Head(s)>> \o RemoveTags(Tail(s))

\* the marker glyphs (six emoji and the square brackets; the files of the
\* model hold the brackets)
TagMarkers == {"[", "]"}

\* (None, original) for a comment, else (cleaned, original)
clean_card_name(line) ==
    IF StartsWith(Strip(line), <<"#">>)
    THEN [comment |-> TRUE, name |-> <<>>, original |-> Strip(line)]
    ELSE [comment  |-> FALSE,
          name     |-> Strip(RemoveChars(
                           RemoveTags(SubSeq(line, QuantityPrefixLen(line) + 1, Len(line))),
                           TagMarkers)),
          original |-> Strip(line)]

S_NOT_FOUND == <<" ","#","N","O","T","_","F","O","U","N","D">>

CollectionsOf(cc, card_lower) == cc[KeyIdx(cc, card_lower)].collections

\* (a variant: the line of a found card keeps the whole input line)
TagLine_keeping(line, cc) ==
    LET c == clean_card_name(line) IN
    IF c.comment THEN c.original
    ELSE IF c.name = <<>> THEN <<>>
    ELSE IF KeyIdx(cc, Lower(c.name)) # 0
    THEN c.original \o <<" ", "#">>
             \o sanitize_collection_name(CollectionsOf(cc, Lower(c.name))[1])
    ELSE c.original \o S_NOT_FOUND

\* process_file: the output line of one input line
TagLine(line, cc) ==
    LET c == clean_card_name(line) IN
    IF c.comment THEN c.original
    ELSE IF c.name = <<>> THEN <<>>
    ELSE IF KeyIdx(cc, Lower(c.name)) # 0
    THEN SubSeq(line, 1, QuantityPrefixLen(line)) \o c.name \o <<" ", "#">>
             \o sanitize_collection_name(CollectionsOf(cc, Lower(c.name))[1])
    ELSE c.original \o S_NOT_FOUND

\* " ".join([f"#{sanitize_collection_name(c)}" for c in collections])
AllTags(collections) ==
    JoinWith([i \in 1..Len(collections) |->
                 <<"#">> \o sanitize_collection_name(collections[i])], <<" ">>)

\* (a variant: blank lines left out of the output)
TagLinesAll_dropping(lines, cc) ==
    LET F[n \in 0..Len(lines)] ==
            IF n = 0 THEN <<>>
            ELSE LET c == clean_card_name(lines[n]) IN
                 IF c.comment THEN Append(F[n - 1], c.original)
                 ELSE IF c.name = <<>> THEN F[n - 1]
                 ELSE IF KeyIdx(cc, Lower(c.name)) # 0
                 THEN Append(F[n - 1],
                          SubSeq(lines[n], 1, QuantityPrefixLen(lines[n])) \o c.name \o <<" ">>
                              \o AllTags(CollectionsOf(cc, Lower(c.name))))
                 ELSE Append(F[n - 1], c.original \o S_NOT_FOUND)
    IN F[Len(lines)]

\* process_with_all_collections: output_lines
TagLinesAll(lines, cc) ==
    LET F[n \in 0..Len(lines)] ==
            IF n = 0 THEN <<>>
            ELSE LET c == clean_card_name(lines[n]) IN
                 IF c.comment THEN Append(F[n - 1], c.original)
                 ELSE IF c.name = <<>> THEN Append(F[n - 1], <<>>)
                 ELSE IF KeyIdx(cc, Lower(c.name)) # 0
                 THEN Append(F[n - 1],
                          SubSeq(lines[n], 1, QuantityPrefixLen(lines[n])) \o c.name \o <<" ">>
                              \o AllTags(CollectionsOf(cc, Lower(c.name))))
                 ELSE Append(F[n - 1], c.original \o S_NOT_FOUND)
    IN F[Len(lines)]

\* ---- the files and the inventories
MaxTagLines == 3

L_SetA_sp    == <<"S","e","t"," ","A">>
L_SLD_Promo  == <<"S","L","D","/","P","r","o","m","o">>
L_Binder2    == <<"B","i","n","d","e","r"," ","#","2">>
L_Precons    == <<"C","o","m","m","a","n","d","e","r","'","s"," ","P","r","e","c","o","n","s",
                  ","," ","V","o","l","."," ","2">>

TagInventories ==
    {<<[name |-> S_SolRing, quantity |-> 1, source |-> L_SetA_sp],
       [name |-> Lower(S_SolRing), quantity |-> 1, source |-> L_SLD_Promo],
       [name |-> S_SolRing, quantity |-> 2, source |-> L_SetA_sp],
       [name |-> S_Sol, quantity |-> 1, source |-> L_Precons]>>,
     <<[name |-> S_Sol, quantity |-> 1, source |-> L_Binder2],
       [name |-> S_Sol, quantity |-> 1, source |-> L_SetA]>>}

TagFileLines ==
    {<<"#"," ","x">> \o NL,
     <<" ","#","T","1">> \o NL,
     NL,
     <<"1"," ">> \o S_SolRing \o NL,
     <<"1","2","\t"," ">> \o S_SolRing \o <<" ","#","T","1"," ","#","x","/","y">> \o NL,
     Lower(S_SolRing) \o <<" ","[","]">> \o NL,
     <<" ","1"," ">> \o S_Sol \o NL,
     <<"3"," ">> \o S_Sol \o <<" "," ">> \o NL,
     <<"1"," ">> \o S_Zur \o <<" ","#","T","1">> \o NL,
     S_Zur,
     <<"1"," ","#","T","1">> \o NL}

TInit ==
    /\ tg_lines \in UNION {[1..n -> TagFileLines] : n \in 1..MaxTagLines}
    \* readlines(): only the last line can lack its line end
    /\ \A i \in 1..(Len(tg_lines) - 1) : tg_lines[i][Len(tg_lines[i])] = "\n"
    /\ \E rows \in TagInventories : card_collections = load_inventory_collections(rows)
    /\ tg_out = <<>>
    /\ tg_pc = "start"

TIdle ==
    /\ tg_lines = <<>>
    /\ card_collections = <<>>
    /\ tg_out = <<>>
    /\ tg_pc = "idle"

\* option 1: one collection per card
ProcessFile ==
    /\ tg_pc = "start"
    /\ tg_out' = [n \in 1..Len(tg_lines) |-> TagLine(tg_lines[n], card_collections)]
    /\ tg_pc' = "single"
    /\ UNCHANGED <<tg_lines, card_collections, xvars, cvars, dvars, ivars, avars, evars, pvars, hvars>>

\* option 2: every collection of the card
ProcessWithAllCollections ==
    /\ tg_pc = "start"
    /\ tg_out' = TagLinesAll(tg_lines, card_collections)
    /\ tg_pc' = "all"
    /\ UNCHANGED <<tg_lines, card_collections, xvars, cvars, dvars, ivars, avars, evars, pvars, hvars>>

TNext == ProcessFile \/ ProcessWithAllCollections

(***************************************************************************)
(* slug (find_best_commanders.py and complete_deck.py) and the tag         *)
(* sanitizers.  A character outside ASCII is written as its code point.    *)
(***************************************************************************)
U_Eacute == "U+00C9"    \* E with acute
U_acirc  == "U+00E2"    \* a with circumflex
U_Acute  == "U+0301"    \* combining acute accent
U_Circ   == "U+0302"    \* combining circumflex accent
U_Euro   == "U+20AC"
U_TM     == "U+2122"

\* the canonical decomposition of one character
NFDChar(c) ==
    IF c = U_Eacute THEN <<"E", U_Acute>>
    ELSE IF c = U_acirc THEN <<"a", U_Circ>>
    ELSE <<c>>

\* unicodedata.normalize('NFD', s)
RECURSIVE NormalizeNFD(_)
NormalizeNFD(s) == IF s = <<>> THEN <<>> ELSE NFDChar(Head(s)) \o NormalizeNFD(Tail(s))

\* the characters of category Mn
CategoryMn == {U_Acute, U_Circ}

\* s.replace(old, new) for a non-empty old
RECURSIVE ReplaceSeq(_, _, _)
ReplaceSeq(s, old, new) ==
    IF s = <<>> THEN <<>>
    ELSE IF StartsWith(s, old) THEN new \o ReplaceSeq(SubSeq(s, Len(old) + 1, Len(s)), old, new)
    ELSE <<Head(s)>> \o ReplaceSeq(Tail(s), old, new)

\* the third pattern of the first replace line of slug
S_Mojibake == <<U_acirc, U_Euro, U_TM>>

\* [a-z0-9]
IsSlugChar(c) == IsDigitChar(c) \/ \E i \in 1..Len(LowerLetters) : LowerLetters[i] = c

\* the longest run of characters outside [a-z0-9] at the head of s
RECURSIVE DropNonSlug(_)
DropNonSlug(s) == IF s # <<>> /\ ~IsSlugChar(Head(s)) THEN DropNonSlug(Tail(s)) ELSE s

\* re.sub(r"[^a-z0-9]+", "-", s)
RECURSIVE HyphenateRuns(_)
HyphenateRuns(s) ==
    IF s = <<>> THEN <<>>
    ELSE IF IsSlugChar(Head(s)) THEN <<Head(s)>> \o HyphenateRuns(Tail(s))
    ELSE <<"-">> \o HyphenateRuns(DropNonSlug(s))

\* s.strip(chars)
RECURSIVE StripChars(_, _)
StripChars(s, chars) ==
    IF s # <<>> /\ Head(s) \in chars THEN StripChars(Tail(s), chars)
    ELSE IF s # <<>> /\ s[Len(s)] \in chars THEN StripChars(SubSeq(s, 1, Len(s) - 1), chars)
    ELSE s

\* slug up to its return statement
SlugBody(s) ==
    LET s1 == NormalizeNFD(s)
        s2 == RemoveChars(s1, CategoryMn)
        s3 == Lower(s2)
        s4 == ReplaceSeq(ReplaceSeq(ReplaceSeq(s3, <<"'">>, <<>>), <<"'">>, <<>>),
                         S_Mojibake, <<>>)
        s5 == ReplaceSeq(ReplaceSeq(ReplaceSeq(s4, <<",">>, <<>>), <<":">>, <<>>),
                         <<".">>, <<>>)
    IN  HyphenateRuns(s5)

\* slug with `return s` for `return s.strip("-")`
slug_unstripped(s) == SlugBody(s)

slug(s) == StripChars(SlugBody(s), {"-"})

\* find_best_commanders.sanitize_commander_name
sanitize_commander_name(commander) ==
    JoinWith(SplitWords(ReplaceChars(RemoveChars(commander, {",", "'", ":"}),
                                     {"/", "-"}, "_")),
             <<"_">>)

\* ---- the texts of the model
MaxTextLen == 3

TextChars == {"A", "b", "2", " ", "-", "'", ".", ",", "/", U_Eacute, U_acirc, U_Euro, U_TM}

S_AtraxaFull == <<"A","t","r","a","x","a",","," ","P","r","a","e","t","o","r","s","'"," ","V","o","i","c","e">>

RECURSIVE TextsOfLen(_)
TextsOfLen(n) ==
    IF n = 0 THEN {<<>>}
    ELSE {Append(s, c) : s \in TextsOfLen(n - 1), c \in TextChars}

Texts == UNION {TextsOfLen(n) : n \in 0..MaxTextLen} \cup {L_Precons, S_AtraxaFull}

SInit ==
    /\ s_in \in Texts
    /\ s_op = "none"
    /\ s_out = <<>>

SIdle ==
    /\ s_in = <<>>
    /\ s_op = "idle"
    /\ s_out = <<>>


Run_slug ==
    /\ s_op = "none"
    /\ s_op' = "slug"
    /\ s_out' = slug(s_in)
    /\ UNCHANGED <<s_in, xvars, cvars, dvars, ivars, avars, evars, pvars, tvars, mvars>>

Run_sanitize_collection_name ==
    /\ s_op = "none"
    /\ s_op' = "sanitize_collection_name"
    /\ s_out' = sanitize_collection_name(s_in)
    /\ UNCHANGED <<s_in, xvars, cvars, dvars, ivars, avars, evars, pvars, tvars, mvars>>

Run_sanitize_commander_name ==
    /\ s_op = "none"
    /\ s_op' = "sanitize_commander_name"
    /\ s_out' = sanitize_commander_name(s_in)
    /\ UNCHANGED <<s_in, xvars, cvars, dvars, ivars, avars, evars, pvars, tvars, mvars>>

SNext == Run_slug \/ Run_sanitize_collection_name \/ Run_sanitize_commander_name

(***************************************************************************)
(* find_best_commanders.py as a whole: the statements of the module in     *)
(* file order.  The analysis and the export are followed call by call;     *)
(* what the remote pages hold is a choice of the environment.              *)
(***************************************************************************)
\* the lines at which the main block and the decklist generator stand
Line_main == 706
Line_generate_decklists_interactive == 754

\* a name of the module is bound when the main block calls it: always in a
\* loaded module, in a script only once its def statement has been executed
BoundAtMain(line) == m_entry = "loaded" \/ line < Line_main

\* the digits of a decimal numeral to its value
RECURSIVE IntOfDigits(_)
IntOfDigits(s) ==
    IF s = <<>> THEN 0
    ELSE 10 * IntOfDigits(SubSeq(s, 1, Len(s) - 1))
         + (CHOOSE d \in 0..9 : DigitChars[d + 1] = s[Len(s)])

\* s.split(sep) for a one-character sep
RECURSIVE SplitOn(_, _)
SplitOn(s, sep) ==
    LET k == FindIn(s, 1, {sep}) IN
    IF k > Len(s) THEN <<s>>
    ELSE <<SubSeq(s, 1, k - 1)>> \o SplitOn(SubSeq(s, k + 1, Len(s)), sep)

\* one part of the selection: [ok, lo, hi] (0-based, inclusive); not ok when
\* int() raises, the unpacking of the split raises or a bound is out of range
SelectionPart(part0, max_index) ==
    LET part == Strip(part0)
        bad  == [ok |-> FALSE, lo |-> 0, hi |-> 0]
    IN  IF \E i \in 1..Len(part) : part[i] = "-"
        THEN LET ends == SplitOn(part, "-") IN
             IF Len(ends) # 2 \/ ~IsDigitStr(Strip(ends[1])) \/ ~IsDigitStr(Strip(ends[2]))
             THEN bad
             ELSE LET start == IntOfDigits(Strip(ends[1])) - 1
                      end   == IntOfDigits(Strip(ends[2])) - 1
                  IN  IF start < 0 \/ end >= max_index \/ start > end THEN bad
                      ELSE [ok |-> TRUE, lo |-> start, hi |-> end]
        ELSE IF ~IsDigitStr(part) THEN bad
             ELSE LET num == IntOfDigits(part) - 1 IN
                  IF num < 0 \/ num >= max_index THEN bad
                  ELSE [ok |-> TRUE, lo |-> num, hi |-> num]

\* the members of a set of numbers in ascending order
RECURSIVE SortedInts(_)
SortedInts(S) ==
    IF S = {} THEN <<>>
    ELSE LET least == CHOOSE n \in S : \A k \in S : n <= k
         IN  <<least>> \o SortedInts(S \ {least})

\* parse_selection: the 0-based indices, [] for a selection it does not accept
parse_selection(selection, max_index) ==
    IF Lower(selection) = <<"a","l","l">> THEN [i \in 1..max_index |-> i - 1]
    ELSE LET parts == SplitOn(selection, ",")
             got   == [i \in 1..Len(parts) |-> SelectionPart(parts[i], max_index)]
         IN  IF \E i \in 1..Len(parts) : ~got[i].ok THEN <<>>
             ELSE SortedInts(UNION {got[i].lo..got[i].hi : i \in 1..Len(parts)})

\* ---- the runs
MaxInvCards == 11   \* the most cards of the inventory that are not basic lands
MaxQualify  == 2    \* the most commanders that qualify

\* what the operator types at the prompt of the main block
Answers == {<<"s">>, <<" ","S"," ">>, <<"n">>, <<>>, <<"s","i">>}

\* what the operator types as the selection
Selections ==
    {<<"a","l","l">>, <<"1">>, <<" ","1"," ">>, <<"0">>, <<"3">>, <<"x">>, <<>>,
     <<"1",",","2">>, <<"1","-","2">>, <<"2","-","1">>, <<"1","-">>, <<"-","1">>,
     <<"1",",",",","2">>, <<"1","-","2","-","2">>}

MInit ==
    /\ m_entry \in {"script", "loaded"}
    /\ m_inventory \in BOOLEAN
    /\ m_cards \in 0..MaxInvCards
    /\ m_done = 0
    /\ m_qualify = 0
    /\ m_eidx = 1
    /\ m_calls = 0
    /\ m_written = FALSE
    /\ m_response = <<>>
    /\ m_selection = <<>>
    /\ m_selected = <<>>
    /\ m_said = {}
    /\ m_pc = "import"

MIdle ==
    /\ m_entry = "script"
    /\ m_inventory = FALSE
    /\ m_cards = 0
    /\ m_done = 0
    /\ m_qualify = 0
    /\ m_eidx = 1
    /\ m_calls = 0
    /\ m_written = FALSE
    /\ m_response = <<>>
    /\ m_selection = <<>>
    /\ m_selected = <<>>
    /\ m_said = {}
    /\ m_pc = "idle"

MOthers == <<xvars, cvars, dvars, ivars, avars, evars, pvars, tvars, svars>>

\* an exception other than the interrupt leaves the try statement of the main
\* block through `except Exception`; a loaded module has no such statement
RaiseException ==
    IF m_entry = "script"
    THEN m_said' = m_said \cup {"fatal"} /\ m_pc' = "fatal"
    ELSE m_said' = m_said /\ m_pc' = "raised"

\* the statements ahead of every def: pd.read_csv(INVENTORY_FILE) and the maps
MImport ==
    /\ m_pc = "import"
    /\ IF m_inventory
       THEN m_said' = m_said /\ m_pc' = "analyze"
       ELSE m_said' = m_said \cup {"traceback"} /\ m_pc' = "traceback"
    /\ UNCHANGED <<m_entry, m_inventory, m_cards, m_done, m_qualify, m_eidx, m_calls,
                   m_written, m_response, m_selection, m_selected, MOthers>>

\* analyze_inventory: process_card of one card, a fetch and a sleep
MAnalyzeCard ==
    /\ m_pc = "analyze"
    /\ m_done < m_cards
    /\ m_done' = m_done + 1
    /\ m_calls' = m_calls + 1
    /\ UNCHANGED <<m_entry, m_inventory, m_cards, m_qualify, m_eidx, m_written,
                   m_response, m_selection, m_selected, m_said, m_pc, MOthers>>

\* analyze_inventory: the rows of the commanders with MIN_MATCHES cards and the
\* sort, which raises KeyError on a DataFrame without rows
MRank ==
    /\ m_pc = "analyze"
    /\ m_done = m_cards
    /\ \E q \in 0..MaxQualify :
          /\ q > 0 => m_cards >= MIN_MATCHES
          /\ m_qualify' = q
          /\ IF q = 0 THEN RaiseException
             ELSE m_said' = m_said /\ m_pc' = "export"
    /\ UNCHANGED <<m_entry, m_inventory, m_cards, m_done, m_eidx, m_calls, m_written,
                   m_response, m_selection, m_selected, MOthers>>

\* export_with_formatting: one pass of the average-deck loop, the fetch of the
\* average deck and the fetch of each of its owned cards
MExportCommander ==
    /\ m_pc = "export"
    /\ m_eidx <= m_qualify
    /\ \E owned \in 0..MaxAvgCards : m_calls' = m_calls + 1 + owned
    /\ m_eidx' = m_eidx + 1
    /\ UNCHANGED <<m_entry, m_inventory, m_cards, m_done, m_qualify, m_written,
                   m_response, m_selection, m_selected, m_said, m_pc, MOthers>>

\* export_with_formatting: the ExcelWriter block, which writes the file
MExportWrite ==
    /\ m_pc = "export"
    /\ m_eidx > m_qualify
    /\ m_written' = TRUE
    /\ m_pc' = "format"
    /\ UNCHANGED <<m_entry, m_inventory, m_cards, m_done, m_qualify, m_eidx, m_calls,
                   m_response, m_selection, m_selected, m_said, MOthers>>

\* export_with_formatting: load_workbook, the fills, wb.save and the return
MExportFormat ==
    /\ m_pc = "format"
    /\ m_pc' = "prompt"
    /\ UNCHANGED <<m_entry, m_inventory, m_cards, m_done, m_qualify, m_eidx, m_calls,
                   m_written, m_response, m_selection, m_selected, m_said, MOthers>>

\* response = input(...).strip().lower() and the call of the generator
MPrompt ==
    /\ m_pc = "prompt"
    /\ \E answer \in Answers :
          /\ m_response' = Lower(Strip(answer))
          /\ IF Lower(Strip(answer)) = <<"s">>
             THEN IF BoundAtMain(Line_generate_decklists_interactive)
                  THEN m_said' = m_said /\ m_pc' = "generator"
                  ELSE RaiseException     \* NameError
             ELSE m_said' = m_said /\ m_pc' = "done"
    /\ UNCHANGED <<m_entry, m_inventory, m_cards, m_done, m_qualify, m_eidx, m_calls,
                   m_written, m_selection, m_selected, MOthers>>

\* generate_decklists_interactive: the selection, parse_selection and the decklists
GenerateDecklistsInteractive ==
    /\ m_pc = "generator"
    /\ \E typed \in Selections :
          LET selection == Strip(typed)
              selected_indices == parse_selection(selection, m_qualify)
          IN  /\ m_selection' = selection
              /\ m_selected' = selected_indices
              /\ m_said' = IF selected_indices = <<>>
                           THEN m_said \cup {"invalid_selection"} ELSE m_said
    /\ m_pc' = "done"
    /\ UNCHANGED <<m_entry, m_inventory, m_cards, m_done, m_qualify, m_eidx, m_calls,
                   m_written, m_response, MOthers>>

\* the operator's interrupt inside the try statement of the main block
MInterrupt ==
    /\ m_entry = "script"
    /\ m_pc \in {"analyze", "export", "format", "prompt"}
    /\ m_said' = m_said \cup {"not_saved"}
    /\ m_pc' = "interrupted"
    /\ UNCHANGED <<m_entry, m_inventory, m_cards, m_done, m_qualify, m_eidx, m_calls,
                   m_written, m_response, m_selection, m_selected, MOthers>>

MNext ==
    \/ MImport
    \/ MAnalyzeCard
    \/ MRank
    \/ MExportCommander
    \/ MExportWrite
    \/ MExportFormat
    \/ MPrompt
    \/ GenerateDecklistsInteractive
    \/ MInterrupt

HIdle == SIdle /\ MIdle

GIdle == PIdle /\ TIdle /\ HIdle

FIdle == IIdle /\ AIdle /\ EIdle /\ GIdle

(***************************************************************************)
(* Specifications                                                          *)
(***************************************************************************)
vars == <<xvars, cvars, dvars, fvars>>

\* the extraction operations, each applied once to a payload
InitExtract == XInit /\ CIdle /\ DIdle /\ FIdle
SpecExtract == InitExtract /\ [][XNext]_vars

\* analyze_and_complete_deck in each world
InitDeck == DInit /\ XIdle /\ CIdle /\ FIdle
SpecDeck == InitDeck /\ [][DNext]_vars

\* the color filter on one candidate
InitColor == CInit /\ XIdle /\ DIdle /\ FIdle
SpecColor == InitColor /\ [][CNext]_vars

\* the inventory file read by either program
InitInventory == IInit /\ AIdle /\ EIdle /\ GIdle /\ XIdle /\ CIdle /\ DIdle
SpecInventory == InitInventory /\ [][INext]_vars

\* analyze_inventory over an inventory and the pages of its cards
InitAnalyze == AInit /\ IIdle /\ EIdle /\ GIdle /\ XIdle /\ CIdle /\ DIdle
SpecAnalyze == InitAnalyze /\ [][ANext]_vars

\* export_with_formatting over a DataFrame and the average decks
InitExport == EInit /\ AIdle /\ GIdle /\ XIdle /\ CIdle /\ DIdle
SpecExport == InitExport /\ [][ENext]_vars

\* parse_partial_decklists over a file
InitParse == PInit /\ TIdle /\ HIdle /\ IIdle /\ AIdle /\ EIdle /\ XIdle /\ CIdle /\ DIdle
SpecParse == InitParse /\ [][PNext]_vars

\* add_collection_tags over a file and an inventory, in either mode
InitTags == TInit /\ PIdle /\ HIdle /\ IIdle /\ AIdle /\ EIdle /\ XIdle /\ CIdle /\ DIdle
SpecTags == InitTags /\ [][TNext]_vars

\* slug and the tag sanitizers, each applied once to a text
InitText == SInit /\ MIdle /\ PIdle /\ TIdle /\ IIdle /\ AIdle /\ EIdle /\ XIdle /\ CIdle /\ DIdle
SpecText == InitText /\ [][SNext]_vars

\* find_best_commanders.py run as a program, or loaded and driven the same way
InitMain == MInit /\ SIdle /\ PIdle /\ TIdle /\ IIdle /\ AIdle /\ EIdle /\ XIdle /\ CIdle /\ DIdle
SpecMain == InitMain /\ [][MNext]_vars

(***************************************************************************)
(* Claims                                                                  *)
(***************************************************************************)
\* C1: every extraction operation completes without raising, whatever JSON
\* value it is given (cardviews that is no sequence of mappings, a name that
\* is no string, null or non-numeric synergy / inclusion / num_decks /
\* potential_decks included).
C1_NeverRaises == xop # "none" => ~xout.raised

(***************************************************************************)
(* Color identities, as the claims speak of them                           *)
(***************************************************************************)
Alphabet == {"W", "U", "B", "R", "G"}

\* a list of symbols of the alphabet, in upper case
IsIdentity(v) ==
    /\ v.t = "list"
    /\ \A i \in 1..Len(v.kids) :
          v.kids[i].t = "str" /\ Len(v.kids[i].s) = 1 /\ v.kids[i].s[1] \in Alphabet

\* a list of symbols of the alphabet, each in upper or lower case
IsIdentityAnyCase(v) ==
    /\ v.t = "list"
    /\ \A i \in 1..Len(v.kids) :
          v.kids[i].t = "str" /\ Len(v.kids[i].s) = 1
              /\ UpperChar(v.kids[i].s[1]) \in Alphabet

Symbols(v)      == {v.kids[i].s[1] : i \in 1..Len(v.kids)}
UpperSymbols(v) == {UpperChar(v.kids[i].s[1]) : i \in 1..Len(v.kids)}

LookupHasBody(resp) ==
    resp.kind = "response" /\ resp.status = 200 /\ resp.parsed /\ resp.data.t = "dict"

CardColorsOf(resp) == Get(resp.data, "color_identity", JNull)

\* the commander's identity is known: a non-empty list of text entries
CommanderKnown(v) ==
    v.t = "list" /\ Len(v.kids) > 0 /\ \A i \in 1..Len(v.kids) : v.kids[i].t = "str"

\* the lookup failed: no 200 response, a body that does not parse or is no
\* mapping, or no usable color-identity field (usable: a list of text entries)
LookupFailed(resp) ==
    \/ ~LookupHasBody(resp)
    \/ ~Has(resp.data, "color_identity")
    \/ CardColorsOf(resp).t # "list"
    \/ \E i \in 1..Len(CardColorsOf(resp).kids) : CardColorsOf(resp).kids[i].t # "str"

\* C7: with the lookup successful, card_is_legal_in_colors returns true
\* exactly when the candidate's identity is a subset of the commander's; with
\* the commander's identity unknown (absent or empty) every candidate is legal.
C7_SubsetLegality ==
    cpc = "done" =>
        /\ ~Truthy(ccolors) => (~clegal.raised /\ clegal.val)
        /\ ( /\ Truthy(ccolors) /\ IsIdentity(ccolors)
             /\ LookupHasBody(clookup) /\ Has(clookup.data, "color_identity")
             /\ IsIdentity(CardColorsOf(clookup)) )
           => ( /\ ~clegal.raised
                /\ clegal.val = (Symbols(CardColorsOf(clookup)) \subseteq Symbols(ccolors)) )

\* commander {W,U,B,G}, candidate {U,B,R}: looked up and found illegal
C7_Witness ==
    /\ cpc = "done"
    /\ IsIdentity(ccolors) /\ Symbols(ccolors) = {"W", "U", "B", "G"}
    /\ LookupHasBody(clookup) /\ Has(clookup.data, "color_identity")
    /\ IsIdentity(CardColorsOf(clookup))
    /\ Symbols(CardColorsOf(clookup)) = {"U", "B", "R"}
    /\ clegal.val = FALSE

\* C8: with the lookup successful, the verdict is the containment of the two
\* identities after upper-casing both sides, so lower-case symbols on either
\* side change nothing.
C8_CaseInsensitive ==
    ( /\ cpc = "done"
      /\ Truthy(ccolors) /\ IsIdentityAnyCase(ccolors)
      /\ LookupHasBody(clookup) /\ Has(clookup.data, "color_identity")
      /\ IsIdentityAnyCase(CardColorsOf(clookup)) )
    => ( /\ ~clegal.raised
         /\ clegal.val =
              (UpperSymbols(CardColorsOf(clookup)) \subseteq UpperSymbols(ccolors)) )

\* C9: for a known commander identity, a failed lookup yields true.
C9_FailureIsLegal ==
    (cpc = "done" /\ CommanderKnown(ccolors) /\ LookupFailed(clookup))
        => (~clegal.raised /\ clegal.val)

\* C10: for every color list get_commander_colors returns and every lookup
\* outcome, card_is_legal_in_colors returns true or false and does not raise.
C10_NeverRaises ==
    (cpc = "done" /\ cvia = "get_commander_colors")
        => (~clegal.raised /\ clegal.val \in BOOLEAN)

(***************************************************************************)
(* analyze_and_complete_deck, as the claims speak of it                    *)
(***************************************************************************)
DeckKeys == {Lower(deck.cards[i]) : i \in 1..Len(deck.cards)}
InvKeys  == {inventory[i].key : i \in 1..Len(inventory)}

SuggestionKeys(s) == {Lower(s[i].name) : i \in 1..Len(s)}

\* C2: every returned suggestion is owned and not in the deck, every returned
\* key card is not owned, and no card is in both lists (names compared
\* case-insensitively).
C2_SuggestionsOwnedKeyCardsNot ==
    pc = "done" =>
        /\ \A k \in SuggestionKeys(result.suggestions) : k \in InvKeys /\ k \notin DeckKeys
        /\ \A k \in SuggestionKeys(result.key_cards_missing) : k \notin InvKeys
        /\ SuggestionKeys(result.suggestions)
               \cap SuggestionKeys(result.key_cards_missing) = {}

\* both lists are non-empty, and an owned average-deck card was left out
\* because the deck holds it under another spelling
C2_Witness ==
    /\ pc = "done"
    /\ Len(result.suggestions) > 0
    /\ Len(result.key_cards_missing) > 0
    /\ \E i \in 1..Len(edhrec_cards) :
          /\ edhrec_cards[i].key \in DeckKeys \cap InvKeys
          /\ \A j \in 1..Len(deck.cards) : deck.cards[j] # edhrec_cards[i].name

\* the candidates of a run and what the claims say of each
CandidateKeys == KeysOf(edhrec_cards) \cup KeysOf(all_synergies)

LegalInColors(k) ==
    \/ ~Truthy(commander_colors)
    \/ card_is_legal_in_colors(commander_colors, ScryFor(k)).val

Eligible(k) == k \in InvKeys /\ k \notin DeckKeys /\ LegalInColors(k)

\* combinedScore = inclusionFraction*100 + min(synergyTotal*10, 50) + (10 if
\* budget) for an average/budget-deck candidate, min(synergyTotal*10, 50) for
\* a synergy-only candidate; in hundredths
ClaimedScore(k) ==
    LET syn == Min(SynergyScoreOf(all_synergies, k) * 10, 5000) IN
    IF k \in KeysOf(edhrec_cards)
    THEN LET info == edhrec_cards[KeyIdx(edhrec_cards, k)]
             f == IF info.num_decks > 0 THEN Frac(info.inclusion, info.num_decks)
                  ELSE [num |-> 0, den |-> 1]
         IN  Frac(10000 * f.num + (syn + IF info.is_budget THEN 1000 ELSE 0) * f.den, f.den)
    ELSE [num |-> syn, den |-> 1]

ReachesThreshold(k) == ~FracLess(ClaimedScore(k), [num |-> MIN_SCORE_THRESHOLD, den |-> 1])

\* C3: an eligible candidate is kept (before the cap) if and only if its
\* combined score is not below MIN_SCORE_THRESHOLD, for both kinds of
\* candidate.
C3_KeptIffNotBelowThreshold ==
    pc = "done" =>
        \A k \in CandidateKeys :
            Eligible(k) => ((k \in KeysOf(suggestions)) <=> ReachesThreshold(k))

\* what the i-th deck card's fetch reports for candidate k
ReportedBy(i, k) ==
    LET r == get_card_synergies(Lower(deck.cards[i]), syn_resps[i]) IN
    IF r.raised \/ KeyIdx(r.val, k) = 0 THEN 0 ELSE r.val[KeyIdx(r.val, k)].synergy

ReportedKeys ==
    UNION { LET r == get_card_synergies(Lower(deck.cards[i]), syn_resps[i])
            IN IF r.raised THEN {} ELSE KeysOf(r.val) : i \in 1..Len(deck.cards) }

RECURSIVE SumReported(_, _)
SumReported(k, n) == IF n = 0 THEN 0 ELSE SumReported(k, n - 1) + ReportedBy(n, k)

\* C4 as claimed: the synergy total of each candidate is the sum over every
\* card of the deck, whatever the deck's size.
C4_SumOverWholeDeck ==
    pc \in {"check", "done"} =>
        \A k \in ReportedKeys :
            SynergyScoreOf(all_synergies, k) = SumReported(k, Len(deck.cards))

\* C4 as amended: the synergy total of each candidate is the sum over the
\* first SEED_LIMIT (20) cards of the deck, in deck order, of what that deck
\* card's fetch reports for the candidate, each contribution above
\* MIN_SYNERGY_SCORE (0.10).
C4_SumOverFirstSeeds ==
    pc \in {"check", "done"} =>
        \A k \in ReportedKeys \cup KeysOf(all_synergies) :
          /\ \A i \in 1..Len(deck.cards) :
                ReportedBy(i, k) = 0 \/ ReportedBy(i, k) > MIN_SYNERGY_SCORE
          /\ SynergyScoreOf(all_synergies, k) =
                SumReported(k, IF Len(deck.cards) < SEED_LIMIT THEN Len(deck.cards)
                               ELSE SEED_LIMIT)

\* a deck longer than the limit whose later cards report a synergy too
C4_Witness ==
    /\ pc = "done"
    /\ Len(deck.cards) > SEED_LIMIT
    /\ \E k \in ReportedKeys :
          /\ SynergyScoreOf(all_synergies, k) > 0
          /\ SumReported(k, Len(deck.cards)) > SumReported(k, SEED_LIMIT)

\* the average/budget-deck cards that the claim calls key cards
PriceOk(info) == IsNumeric(info.price) /\ info.price.n <= KEY_CARD_PRICE_MAX
PctOf(info) ==
    IF info.num_decks > 0 THEN Frac(info.inclusion, info.num_decks)
    ELSE [num |-> 0, den |-> 1]
HighInclusion(info) == 100 * PctOf(info).num >= KEY_CARD_INCLUSION_MIN * PctOf(info).den

ClaimedKeyIdx ==
    {i \in 1..Len(edhrec_cards) :
        /\ edhrec_cards[i].key \notin InvKeys
        /\ HighInclusion(edhrec_cards[i]) /\ PriceOk(edhrec_cards[i])}

AmendedKeyIdx == {i \in ClaimedKeyIdx : edhrec_cards[i].key \notin DeckKeys}

KeyListSorted ==
    \A a, b \in 1..Len(result.key_cards_missing) :
        a < b => ~FracLess(result.key_cards_missing[a].inclusion,
                           result.key_cards_missing[b].inclusion)

\* C5 as claimed: the list holds every average/budget-deck card that is not
\* owned, has inclusionFraction >= 0.40 and price <= 2.00, in non-increasing
\* order of inclusion fraction.
C5_EveryKeyCardListed ==
    pc = "done" =>
        /\ \A i \in ClaimedKeyIdx :
              edhrec_cards[i].key \in SuggestionKeys(result.key_cards_missing)
        /\ KeyListSorted

ListedKeyIdx ==
    {i \in 1..Len(edhrec_cards) :
        edhrec_cards[i].key \in SuggestionKeys(result.key_cards_missing)}

\* C5 as amended: the list holds the first KEY_CARDS_LIMIT (20), in
\* non-increasing order of inclusion fraction and discovery order among equal
\* fractions, of the average/budget-deck cards that are not in the deck, not
\* owned, with inclusionFraction >= 0.40 and price <= 2.00.
C5_KeyCardsListedUpToLimit ==
    pc = "done" =>
        /\ ListedKeyIdx \subseteq AmendedKeyIdx
        /\ Cardinality(ListedKeyIdx) = Len(result.key_cards_missing)
        /\ Len(result.key_cards_missing) =
               (IF Cardinality(AmendedKeyIdx) < KEY_CARDS_LIMIT
                THEN Cardinality(AmendedKeyIdx) ELSE KEY_CARDS_LIMIT)
        /\ KeyListSorted
        /\ \A i \in AmendedKeyIdx \ ListedKeyIdx : \A j \in ListedKeyIdx :
              \/ FracLess(PctOf(edhrec_cards[i]), PctOf(edhrec_cards[j]))
              \/ (FracEq(PctOf(edhrec_cards[i]), PctOf(edhrec_cards[j])) /\ j < i)
        /\ \A a, b \in 1..Len(result.key_cards_missing) :
              ( /\ a < b
                /\ FracEq(result.key_cards_missing[a].inclusion,
                          result.key_cards_missing[b].inclusion) )
              => KeyIdx(edhrec_cards, Lower(result.key_cards_missing[a].name))
                    < KeyIdx(edhrec_cards, Lower(result.key_cards_missing[b].name))

\* more key cards than the limit, one of them left out because it is in the
\* deck, and the list full
C5_Witness ==
    /\ pc = "done"
    /\ Cardinality(AmendedKeyIdx) > KEY_CARDS_LIMIT
    /\ ClaimedKeyIdx # AmendedKeyIdx
    /\ Len(result.key_cards_missing) = KEY_CARDS_LIMIT

\* the candidates that pass the color check and the score gate, by discovery
PassingIdx ==
    {i \in 1..Len(cards_to_check) :
        LegalInColors(cards_to_check[i].key) /\ ReachesThreshold(cards_to_check[i].key)}

PosInCheck(k) == KeyIdx(cards_to_check, k)

ReturnedIdx ==
    {PosInCheck(result.suggestions[a].key) : a \in 1..Len(result.suggestions)}

\* C6: at most MAX_SUGGESTIONS (50) suggestions, in non-increasing order of
\* score, none left out that scores higher than one included, equal scores in
\* discovery order.
C6_TopSuggestionsStableOrder ==
    pc = "done" =>
        /\ Len(result.suggestions) <= MAX_SUGGESTIONS
        /\ ReturnedIdx \subseteq PassingIdx
        /\ Cardinality(ReturnedIdx) = Len(result.suggestions)
        /\ Len(result.suggestions) =
               (IF Cardinality(PassingIdx) < MAX_SUGGESTIONS
                THEN Cardinality(PassingIdx) ELSE MAX_SUGGESTIONS)
        /\ \A a, b \in 1..Len(result.suggestions) :
              a < b =>
                 LET ka == result.suggestions[a].key
                     kb == result.suggestions[b].key
                 IN  /\ ~FracLess(ClaimedScore(ka), ClaimedScore(kb))
                     /\ FracEq(ClaimedScore(ka), ClaimedScore(kb))
                            => PosInCheck(ka) < PosInCheck(kb)
        /\ \A i \in PassingIdx \ ReturnedIdx : \A j \in ReturnedIdx :
              ~FracLess(ClaimedScore(cards_to_check[j].key),
                        ClaimedScore(cards_to_check[i].key))

\* more passing candidates than the cap, equal scores among those returned
C6_Witness ==
    /\ pc = "done"
    /\ Cardinality(PassingIdx) > MAX_SUGGESTIONS
    /\ Len(result.suggestions) = MAX_SUGGESTIONS
    /\ \E a, b \in 1..Len(result.suggestions) :
          a < b /\ FracEq(result.suggestions[a].score, result.suggestions[b].score)

(***************************************************************************)
(* get_commander_colors and find_color_identity, as the claims speak of    *)
(* them                                                                    *)
(***************************************************************************)
\* the fixed name-to-colors table, in the order it is consulted
ColorTable ==
    << <<S_atraxa,    <<"W","U","B","G">> >>,
       <<S_muldrotha, <<"U","B","G">> >>,
       <<S_korvold,   <<"B","R","G">> >>,
       <<S_golos,     <<"W","U","B","R","G">> >>,
       <<S_chulane,   <<"G","W","U">> >> >>

TableHits(name) == {i \in 1..Len(ColorTable) : Contains(ColorTable[i][1], Lower(name))}

TableOrFiveColors(name) ==
    IF TableHits(name) = {} THEN ColorList(<<"W","U","B","R","G">>)
    ELSE ColorList(ColorTable[CHOOSE i \in TableHits(name) :
                                  \A j \in TableHits(name) : i <= j][2])

\* what extraction from the detail payload yields: the search's value or,
\* when that is empty, container.json_dict.card.color_identity
ExtractedColors(resp) ==
    IF ~Fetched(resp) THEN JNull
    ELSE IF Truthy(cfound) THEN cfound
    ELSE IF ContainerColors(resp.data, cfound).r = "raise" THEN JNull
    ELSE ContainerColors(resp.data, cfound).v

YieldsColors(v) == v.t = "list" /\ Len(v.kids) > 0

\* C11: get_commander_colors returns the colors extracted from the payload
\* whenever extraction yields a non-empty list, the table's colors for the
\* name only when the fetch fails or extraction yields no such list, and the
\* five colors only when the name then matches no entry of the table.
C11_ThreeTierOrder ==
    (cpc # "start" /\ cvia = "get_commander_colors") =>
        IF YieldsColors(ExtractedColors(cresp))
        THEN ccolors = NormalizeColors(ExtractedColors(cresp))
        ELSE ccolors = TableOrFiveColors(cname)

\* a commander the table knows, whose payload gives other colors
C11_Witness ==
    /\ cpc = "colors" /\ cvia = "get_commander_colors"
    /\ TableHits(cname) # {}
    /\ YieldsColors(ExtractedColors(cresp))
    /\ ccolors # TableOrFiveColors(cname)
    /\ ccolors = NormalizeColors(ExtractedColors(cresp))

\* a node that has a 'coloridentity' field or a list-valued 'colors' field
HasColorField(o) ==
    o.t = "dict" /\ (Has(o, "coloridentity")
                        \/ (Has(o, "colors") /\ Get(o, "colors", JNull).t = "list"))

ColorFieldOf(o) ==
    IF Has(o, "coloridentity") THEN Get(o, "coloridentity", JNull)
    ELSE Get(o, "colors", JNull)

\* some node at depth..DEPTH_CAP of the tree under o (o at depth) has a field
RECURSIVE HasFieldWithinCap(_, _)
HasFieldWithinCap(o, depth) ==
    /\ depth <= DEPTH_CAP
    /\ \/ HasColorField(o)
       \/ /\ o.t \in {"dict", "list"}
          /\ \E i \in 1..Len(o.kids) : HasFieldWithinCap(o.kids[i], depth + 1)

\* the field's value at the first such node in depth-first pre-order
RECURSIVE FirstFieldInPreOrder(_, _)
FirstFieldInPreOrder(o, depth) ==
    IF HasColorField(o) THEN ColorFieldOf(o)
    ELSE LET first == CHOOSE i \in 1..Len(o.kids) :
                         /\ HasFieldWithinCap(o.kids[i], depth + 1)
                         /\ \A j \in 1..(i - 1) : ~HasFieldWithinCap(o.kids[j], depth + 1)
         IN  FirstFieldInPreOrder(o.kids[first], depth + 1)

\* C12: find_color_identity returns the value held by the first node, in
\* depth-first pre-order, that has a 'coloridentity' field or a list-valued
\* 'colors' field, whatever that value is; a later node never replaces it.
C12_FirstMatchWins ==
    (cpc # "start" /\ cvia = "get_commander_colors" /\ Fetched(cresp)
        /\ HasFieldWithinCap(cresp.data, 0))
    => cfound = FirstFieldInPreOrder(cresp.data, 0)

\* C13: find_color_identity returns absent for an empty mapping, for a tree
\* with no 'coloridentity' or 'colors' field, and for a tree whose only such
\* fields lie deeper than the depth cap of 10.
C13_AbsentBelowCap ==
    (cpc # "start" /\ cvia = "get_commander_colors" /\ Fetched(cresp)
        /\ ~HasFieldWithinCap(cresp.data, 0))
    => cfound = JNull

\* a tree whose only field lies one level below the cap
C13_Witness ==
    /\ cpc = "colors" /\ cvia = "get_commander_colors" /\ Fetched(cresp)
    /\ cresp.data = Nest(DEPTH_CAP + 1, JDict(<<"coloridentity">>, <<ColorList(<<"U">>)>>))
    /\ cfound = JNull

(***************************************************************************)
(* The own-link search, as the claims speak of it                          *)
(***************************************************************************)
LinkSearchRan == xop \in {"find_scryfall_for_card", "find_scryfall_in_data"}

\* what the search returns for "absent"
AbsentLink == IF xop = "find_scryfall_for_card" THEN JNull ELSE JStr(<<>>)

\* a node whose 'name' equals the target case-insensitively and which
\* carries a link field
IsLinkNode(o, target) ==
    /\ o.t = "dict"
    /\ Has(o, "name") /\ Get(o, "name", JNull).t = "str"
    /\ Lower(Get(o, "name", JNull).s) = Lower(target)
    /\ Has(o, "scryfall_uri")

\* some node at most limit levels below o is such a node
RECURSIVE HasLinkNodeWithin(_, _, _)
HasLinkNodeWithin(o, target, limit) ==
    /\ limit >= 0
    /\ \/ IsLinkNode(o, target)
       \/ /\ o.t \in {"dict", "list"}
          /\ \E i \in 1..Len(o.kids) : HasLinkNodeWithin(o.kids[i], target, limit - 1)

TreeDepth == DEPTH_CAP + NestBeyond

\* the link field of the first such node in depth-first pre-order
RECURSIVE FirstLinkInPreOrder(_, _, _)
FirstLinkInPreOrder(o, target, limit) ==
    IF IsLinkNode(o, target) THEN Get(o, "scryfall_uri", JNull)
    ELSE LET first == CHOOSE i \in 1..Len(o.kids) :
                         /\ HasLinkNodeWithin(o.kids[i], target, limit - 1)
                         /\ \A j \in 1..(i - 1) :
                               ~HasLinkNodeWithin(o.kids[j], target, limit - 1)
         IN  FirstLinkInPreOrder(o.kids[first], target, limit - 1)

\* C14: the own-link search examines no node more than DEPTH_CAP (10) levels
\* below the root: when no node within the cap has the target name and a
\* link, the result is absent.
C14_LinkSearchCapped ==
    (LinkSearchRan /\ ~xout.raised /\ ~HasLinkNodeWithin(xdata, xtarget, DEPTH_CAP))
        => xout.val = AbsentLink

\* C15: the own-link search returns the link field of the first node, in
\* depth-first pre-order, whose name equals the target case-insensitively and
\* which carries a link field, and absent when there is no such node.
C15_FirstLinkWins ==
    (LinkSearchRan /\ ~xout.raised) =>
        xout.val = (IF HasLinkNodeWithin(xdata, xtarget, TreeDepth)
                    THEN FirstLinkInPreOrder(xdata, xtarget, TreeDepth)
                    ELSE AbsentLink)

(***************************************************************************)
(* extract_commanders_from_card_json, as the claim speaks of it            *)
(***************************************************************************)
\* the mapping nodes of a tree, in depth-first pre-order
RECURSIVE NodesOf(_)
NodesOf(o) ==
    IF o.t \in {"dict", "list"}
    THEN (IF o.t = "dict" THEN <<o>> ELSE <<>>)
             \o Concat([i \in 1..Len(o.kids) |-> NodesOf(o.kids[i])])
    ELSE <<>>

\* the node's link field marks a commander page, it has a name, its counts
\* are present and positive, and inclusion/potential > 0.2
IsCommanderRecordNode(o) ==
    LET url == Get(o, "url", JNull)
        inc == Get(o, "inclusion", JNull)
        pot == Get(o, "potential_decks", JNull)
    IN  /\ url.t = "str" /\ Contains(S_commanders, url.s)
        /\ Truthy(Get(o, "name", JNull))
        /\ IsNumeric(inc) /\ inc.n > 0
        /\ IsNumeric(pot) /\ pot.n > 0
        /\ 5 * inc.n > pot.n

RECURSIVE AppearancesOf(_)
AppearancesOf(o) ==
    IF o.t = "dict"
    THEN CardviewsOf(o) \o Concat([i \in 1..Len(o.kids) |-> AppearancesOf(o.kids[i])])
    ELSE IF o.t = "list"
    THEN Concat([i \in 1..Len(o.kids) |-> AppearancesOf(o.kids[i])])
    ELSE <<>>

IsNamedView(cv) == Get(cv, "name", JNull).t = "str" /\ Truthy(Get(cv, "name", JNull))

NamedAppearances == SelectSeq(AppearancesOf(xdata), IsNamedView)

AppearancesOfName(k) ==
    {i \in 1..Len(NamedAppearances) : Lower(Get(NamedAppearances[i], "name", JNull).s) = k}

\* a count of an appearance, zero when the field is missing
CountAt(i, field) == Get(NamedAppearances[i], field, JNum(0)).n

MaxCount(k, field) ==
    CHOOSE c \in {CountAt(i, field) : i \in AppearancesOfName(k)} :
        \A i \in AppearancesOfName(k) : CountAt(i, field) <= c

LinkedAppearances(k) ==
    {i \in AppearancesOfName(k) : Truthy(Get(NamedAppearances[i], "scryfall_uri", JNull))}

\* C17: get_average_and_budget_deck yields one record per case-folded card
\* name, with the maximum inclusion count and the maximum deck count over the
\* name's appearances (a missing field counting as zero) and the first
\* non-empty link in traversal order (no link when every appearance lacks one).
C17_MergedAppearances ==
    (xop = "get_average_and_budget_deck" /\ ~xout.raised) =>
        /\ KeysOf(xout.val) =
               {Lower(Get(NamedAppearances[i], "name", JNull).s) : i \in 1..Len(NamedAppearances)}
        /\ \A a, b \in 1..Len(xout.val) : xout.val[a].key = xout.val[b].key => a = b
        /\ \A a \in 1..Len(xout.val) :
              LET r == xout.val[a] IN
              /\ r.inclusion = MaxCount(r.key, "inclusion")
              /\ r.num_decks = MaxCount(r.key, "num_decks")
              /\ IF LinkedAppearances(r.key) = {} THEN ~Truthy(r.scryfall)
                 ELSE r.scryfall =
                        Get(NamedAppearances[CHOOSE i \in LinkedAppearances(r.key) :
                                \A j \in LinkedAppearances(r.key) : i <= j],
                            "scryfall_uri", JNull)

\* a card listed twice under two spellings: the later appearance has the
\* smaller counts, the earlier one has no link and the later one has
C17_Witness ==
    /\ xop = "get_average_and_budget_deck" /\ ~xout.raised
    /\ \E i, j \in AppearancesOfName(S_a) :
          /\ i < j
          /\ Get(NamedAppearances[i], "name", JNull) # Get(NamedAppearances[j], "name", JNull)
          /\ CountAt(j, "inclusion") < CountAt(i, "inclusion")
          /\ ~Truthy(Get(NamedAppearances[i], "scryfall_uri", JNull))
          /\ Truthy(Get(NamedAppearances[j], "scryfall_uri", JNull))
    /\ \E a \in 1..Len(xout.val) :
          /\ xout.val[a].key = S_a
          /\ xout.val[a].inclusion = 300
          /\ Truthy(xout.val[a].scryfall)


(***************************************************************************)
(* The inventory index, as the claim speaks of it                          *)
(***************************************************************************)
NoDuplicates(s) == \A a, b \in 1..Len(s) : s[a] = s[b] => a = b

LabelsOfName(k) == {irows[i].source : i \in RowsOfName(irows, k)}

InventoryNames == {Lower(irows[i].name) : i \in 1..Len(irows)}

\* C20: the inventory index maps each case-folded name to the sum of the
\* quantities of its rows and to the deduplicated set of their source
\* labels, each label recorded once however many rows carry it.
C20_SummedAndDeduplicated ==
    /\ (ipc = "loaded" /\ inv_map_cd # <<>>) =>
          /\ KeysOf(inv_map_cd) = InventoryNames
          /\ \A e \in 1..Len(inv_map_cd) :
                LET k == inv_map_cd[e].key IN
                /\ inv_map_cd[e].quantity = SumQuantity(irows, RowsOfName(irows, k))
                /\ {inv_map_cd[e].collections[i] : i \in 1..Len(inv_map_cd[e].collections)}
                       = LabelsOfName(k)
                /\ NoDuplicates(inv_map_cd[e].collections)
    /\ (ipc = "loaded" /\ inv_map # <<>>) =>
          /\ KeysOf(inv_map) = InventoryNames
          /\ KeysOf(inv_source_map) = InventoryNames
          /\ \A e \in 1..Len(inv_map) :
                inv_map[e].quantity = SumQuantity(irows, RowsOfName(irows, inv_map[e].key))
          /\ \A e \in 1..Len(inv_source_map) :
                LET s == inv_source_map[e].sources IN
                /\ {s[i] : i \in 1..Len(s)} = LabelsOfName(inv_source_map[e].key)
                /\ NoDuplicates(s)


(***************************************************************************)
(* The ranking of analyze_inventory, as the claim speaks of it             *)
(***************************************************************************)
\* the owned cards attached to a commander: the rows of the inventory whose
\* page was read and holds a record of the commander (percent above 0.2)
AttachedCards(com) ==
    {i \in 1..Len(a_inv) :
        LET res == process_card(a_inv[i].name, a_inv[i].name_lower, a_pages[i]) IN
        ~res.skipped /\ \E r \in 1..Len(res.commanders) : res.commanders[r].commander = com}

SeenCommanders == KeysOf(commander_stats)

RankedRowOf(com) == {r \in 1..Len(ranked) : ranked[r].commander = com}

\* C18: a commander is in the ranked list iff the number of distinct owned
\* cards attached to it is at least MIN_MATCHES, and its reported match
\* count is that number of distinct owned cards.
C18_RankedIffEnoughDistinctCards ==
    apc = "done" =>
        \A com \in SeenCommanders :
            /\ RankedRowOf(com) # {} <=> Cardinality(AttachedCards(com)) >= MIN_MATCHES
            /\ \A r \in RankedRowOf(com) :
                  ranked[r].matches = Cardinality(AttachedCards(com))


(***************************************************************************)
(* The order of the exported rows, as the claim speaks of it               *)
(***************************************************************************)
RowsOfCommander(com) == Cardinality({i \in 1..Len(df2) : df2[i].commander = com})

PercentOf(row) == IF NotNa(row.percent) THEN Frac(row.percent.num, row.percent.den)
                  ELSE Frac(0, 1)

TierOf(row) ==
    IF row.source = "both" THEN 1
    ELSE IF row.source = "edhrec" /\ FracLess(Frac(1, 5), PercentOf(row)) THEN 2
    ELSE IF row.source = "average" THEN 3
    ELSE 4

\* the claimed key puts row a strictly ahead of row b
ClaimedAhead(a, b) ==
    \/ RowsOfCommander(a.commander) > RowsOfCommander(b.commander)
    \/ /\ RowsOfCommander(a.commander) = RowsOfCommander(b.commander)
       /\ \/ StrLess(a.commander.s, b.commander.s)
          \/ a.commander = b.commander /\ TierOf(a) < TierOf(b)
          \/ a.commander = b.commander /\ TierOf(a) = TierOf(b) /\ TierOf(a) # 3
                /\ FracLess(PercentOf(b), PercentOf(a))

SameRows(s, u) ==
    /\ Len(s) = Len(u)
    /\ \A r \in {s[i] : i \in 1..Len(s)} \cup {u[i] : i \in 1..Len(u)} :
          Cardinality({i \in 1..Len(s) : s[i] = r}) = Cardinality({i \in 1..Len(u) : u[i] = r})

\* C19: the exported rows are the collected rows ordered by (descending
\* number of rows of the commander, ascending commander name, ascending
\* tier, descending percentage within the tier); tier 1 is a 'both' row,
\* tier 2 an 'edhrec' row with percentage above 0.20, tier 3 an 'average'
\* row, tier 4 everything else.
C19_RowsInClaimedOrder ==
    epc = "done" =>
        /\ SameRows(df2, flat)
        /\ \A i, j \in 1..Len(df2) : i < j => ~ClaimedAhead(df2[j], df2[i])

\* two commanders, the one with more rows first although its name is the
\* later one; under it a 'both' row ahead of an 'edhrec' row of a higher
\* percentage, an 'average' row after them and a row of tier 4 last
C19_Witness ==
    /\ epc = "done"
    /\ \E i, j, k, l, z \in 1..Len(df2) :
          /\ i < j /\ j < k /\ k < l /\ l < z
          /\ df2[i].commander = JStr(S_Zur) /\ df2[l].commander = JStr(S_Zur)
          /\ df2[z].commander = JStr(S_Atraxa)
          /\ df2[i].source = "both" /\ df2[j].source = "edhrec"
          /\ FracLess(PercentOf(df2[i]), PercentOf(df2[j]))
          /\ df2[k].source = "average"
          /\ TierOf(df2[l]) = 4


(***************************************************************************)
(* The decks of parse_partial_decklists, as the claim speaks of them       *)
(***************************************************************************)
\* the lines of the file under its k-th commander header, up to the next one
HeaderLines == {i \in 1..Len(dl_lines) : IsCommanderHeader(Strip(dl_lines[i]))}

LinesUnder(h) ==
    {i \in (h + 1)..Len(dl_lines) : \A g \in HeaderLines : g <= h \/ g > i}

\* a card line: it is not blank and not a comment
IsCardLine(raw) == Strip(raw) # <<>> /\ ~StartsWith(Strip(raw), <<"#">>)

\* the line without its leading quantity, when it has one
WithoutQuantity(line) ==
    LET parts == SplitFirstWord(line) IN
    IF Len(parts) = 2 /\ IsDigitStr(parts[1]) THEN parts[2] ELSE line

\* the entry the claim gives a card line: the name without the leading
\* quantity, the tags and the marker glyphs
ClaimedEntry(raw) == CleanDeckCardName(WithoutQuantity(Strip(raw)))

RECURSIVE ClaimedCards(_, _)
ClaimedCards(from, to) ==
    IF from > to THEN <<>>
    ELSE IF IsCardLine(dl_lines[from]) /\ ClaimedEntry(dl_lines[from]) # <<>>
         THEN <<ClaimedEntry(dl_lines[from])>> \o ClaimedCards(from + 1, to)
         ELSE ClaimedCards(from + 1, to)

NthHeader(k) == CHOOSE h \in HeaderLines : Cardinality({g \in HeaderLines : g <= h}) = k

LastUnder(h) == IF LinesUnder(h) = {} THEN h ELSE CHOOSE i \in LinesUnder(h) : \A j \in LinesUnder(h) : j <= i

\* C21: the deck opened by a '# Comandante:' header holds one entry per card
\* line under it, in file order and with duplicates, whether or not the line
\* starts with a quantity; the entry is the card name without the leading
\* quantity, the #tags and the marker glyphs.
C21_OneEntryPerCardLine ==
    dl_pc = "parsed" =>
        /\ Len(dl_decks) = Cardinality(HeaderLines)
        /\ \A k \in 1..Len(dl_decks) :
              dl_decks[k].cards = ClaimedCards(NthHeader(k) + 1, LastUnder(NthHeader(k)))


(***************************************************************************)
(* The tagged file, as the claims speak of it                              *)
(***************************************************************************)
TagsDone == tg_pc \in {"single", "all"}

IsCommentLine(raw) == StartsWith(Strip(raw), <<"#">>)

IsBlankLine(raw) == Strip(raw) = <<>>

\* the card name of a line of the form [quantity ]name[ tags and markers]
NameOnLine(raw) == clean_card_name(raw).name

IsTagCardLine(raw) == ~IsCommentLine(raw) /\ ~IsBlankLine(raw) /\ NameOnLine(raw) # <<>>

\* the words of a line that are tags
TagWords(line) ==
    {i \in 1..Len(SplitWords(line)) : StartsWith(SplitWords(line)[i], <<"#">>)}

EndsInTag(line) == SplitWords(line) # <<>> /\ Len(SplitWords(line)) \in TagWords(line)

OneLine(line) == \A i \in 1..Len(line) : line[i] # "\n"

\* C22: one output line per input line, in the same order; a comment or
\* blank line yields a comment or blank line at its position, and a card
\* line yields a line that ends in '#' tags or in '#NOT_FOUND'.
C22_LineForLine ==
    TagsDone =>
        /\ Len(tg_out) = Len(tg_lines)
        /\ \A i \in 1..Len(tg_lines) :
              /\ i <= Len(tg_out) => OneLine(tg_out[i])
              /\ i <= Len(tg_out) /\ IsCommentLine(tg_lines[i]) => tg_out[i] = Strip(tg_lines[i])
              /\ i <= Len(tg_out) /\ IsBlankLine(tg_lines[i]) => tg_out[i] = <<>>
              /\ i <= Len(tg_out) /\ IsTagCardLine(tg_lines[i]) =>
                    /\ EndsInTag(tg_out[i])
                    /\ KeyIdx(card_collections, Lower(NameOnLine(tg_lines[i]))) = 0
                          => tg_out[i] = Strip(tg_lines[i]) \o S_NOT_FOUND

\* a file with a comment, a blank line and a card line, in both modes
C22_Witness ==
    /\ TagsDone
    /\ Len(tg_lines) = 3
    /\ IsCommentLine(tg_lines[1]) /\ IsBlankLine(tg_lines[2]) /\ IsTagCardLine(tg_lines[3])
    /\ KeyIdx(card_collections, Lower(NameOnLine(tg_lines[3]))) # 0
    /\ tg_pc = "all" /\ Cardinality(TagWords(tg_out[3])) = 2

\* the line begins with a quantity: digits, then whitespace
HasQuantityPrefix(raw) == QuantityPrefixLen(raw) > 0

\* C23: in single-collection mode the output line of a card found in the
\* inventory holds exactly one '#' tag, the sanitized label of the card's
\* first collection, whatever tags the input line had, and starts with the
\* input line's quantity prefix unchanged when it had one.
C23_OneTagPrefixKept ==
    tg_pc = "single" =>
        \A i \in 1..Len(tg_lines) :
            (IsTagCardLine(tg_lines[i])
                 /\ KeyIdx(card_collections, Lower(NameOnLine(tg_lines[i]))) # 0) =>
                LET words == SplitWords(tg_out[i]) IN
                /\ Cardinality(TagWords(tg_out[i])) = 1
                /\ words[Len(words)] = <<"#">> \o sanitize_collection_name(
                       CollectionsOf(card_collections, Lower(NameOnLine(tg_lines[i])))[1])
                /\ HasQuantityPrefix(tg_lines[i]) =>
                       StartsWith(tg_out[i], SubSeq(tg_lines[i], 1, QuantityPrefixLen(tg_lines[i])))

\* a found card whose input line had a quantity, a tab and two old tags
C23_Witness ==
    /\ tg_pc = "single"
    /\ \E i \in 1..Len(tg_lines) :
          /\ IsTagCardLine(tg_lines[i])
          /\ KeyIdx(card_collections, Lower(NameOnLine(tg_lines[i]))) # 0
          /\ Cardinality(TagWords(tg_lines[i])) = 2
          /\ StartsWith(tg_lines[i], <<"1","2","\t"," ">>)
          /\ StartsWith(tg_out[i], <<"1","2","\t"," ">>)

(***************************************************************************)
(* C24, C25: the tag sanitizers and slug                                   *)
(***************************************************************************)
Sanitizers == {"sanitize_collection_name", "sanitize_commander_name"}

S_PreconsTagNoPeriod == <<"C","o","m","m","a","n","d","e","r","s","_","P","r","e","c","o","n","s","_","V","o","l","_","2">>
S_PreconsTag         == <<"C","o","m","m","a","n","d","e","r","s","_","P","r","e","c","o","n","s","_","V","o","l",".","_","2">>

\* C24 as stated: both tag sanitizers map the label "Commander's Precons, Vol. 2"
\* to the tag Commanders_Precons_Vol_2
C24_PreconsWithoutPeriod ==
    (s_op \in Sanitizers /\ s_in = L_Precons) => s_out = S_PreconsTagNoPeriod

\* C24 amended: both tag sanitizers map the label "Commander's Precons, Vol. 2"
\* to the tag Commanders_Precons_Vol._2: the apostrophe and the comma are removed,
\* the spaces become underscores and the period stays
C24_PreconsKeepsPeriod ==
    (s_op \in Sanitizers /\ s_in = L_Precons) => s_out = S_PreconsTag

C24_Witness ==
    /\ s_op = "sanitize_collection_name"
    /\ s_in = L_Precons
    /\ s_out = S_PreconsTag

\* the text has a hyphen at its head, a hyphen at its end, or two hyphens in a row
BadHyphens(s) ==
    \/ s # <<>> /\ (Head(s) = "-" \/ s[Len(s)] = "-")
    \/ \E i \in 1..(Len(s) - 1) : s[i] = "-" /\ s[i + 1] = "-"

\* C25: slug returns a text made only of characters of [a-z0-9-], with no hyphen
\* at its head or its end and no two hyphens in a row, the empty text for the
\* empty text, and slug of what it returned is what it returned
C25_SlugShapeAndIdempotent ==
    s_op = "slug" =>
        /\ \A i \in 1..Len(s_out) : IsSlugChar(s_out[i]) \/ s_out[i] = "-"
        /\ ~BadHyphens(s_out)
        /\ (s_in = <<>> => s_out = <<>>)
        /\ slug(s_out) = s_out

\* a text with an accented capital, a space at its head and punctuation at its end
C25_Witness ==
    /\ s_op = "slug"
    /\ s_in = <<" ", U_Eacute, ".">>
    /\ s_out = <<"e">>

(***************************************************************************)
(* C29: the source of a row of export_with_formatting                      *)
(***************************************************************************)
\* the row of e_df of a commander
DfRowOf(com) == CHOOSE i \in 1..Len(e_df) : e_df[i].commander = com

\* the card is recorded for the commander in the attachment data
InAttachmentData(com, card) ==
    \E c \in 1..Len(e_df[DfRowOf(com)].cards) :
        Lower(e_df[DfRowOf(com)].cards[c].name) = Lower(card)

\* the card is owned and in the average deck of the commander
InAverageDeck(com, card) ==
    /\ KeyIdx(inv_map, Lower(card)) # 0
    /\ \E c \in 1..Len(e_avg[DfRowOf(com)]) : Lower(e_avg[DfRowOf(com)][c]) = Lower(card)

\* C29: once the average decks of all commanders are in, a row has source 'both'
\* iff its card is in the attachment data of its commander and, owned, in the
\* average deck of the commander, 'average' iff it is only in the average deck and
\* 'edhrec' iff it is only in the attachment data, for every average-deck list
C29_SourceTellsWhereTheCardIs ==
    (epc \in {"avg", "done"} /\ eidx > Len(e_df)) =>
        \A i \in 1..Len(flat) :
            LET a == InAttachmentData(flat[i].commander, flat[i].card)
                v == InAverageDeck(flat[i].commander, flat[i].card)
            IN  /\ flat[i].source = "both" <=> (a /\ v)
                /\ flat[i].source = "average" <=> (~a /\ v)
                /\ flat[i].source = "edhrec" <=> (a /\ ~v)

(***************************************************************************)
(* C26: the rate limit                                                     *)
(***************************************************************************)
\* C26: in every run each remote call is followed by a rate-limit sleep before
\* the next remote call is issued: no two remote calls in a row
C26_SleepBetweenCalls ==
    \A i \in 1..(Len(e_net) - 1) : ~(e_net[i] = "call" /\ e_net[i + 1] = "call")

(***************************************************************************)
(* C27, C28, C30: the main run of find_best_commanders                     *)
(***************************************************************************)
\* C27: whenever the interrupt handler has reported that the partial results were
\* not saved, the run has written no spreadsheet file
C27_InterruptLeavesNoSpreadsheet == "not_saved" \in m_said => ~m_written

C30_AnswerSReachesGenerator ==
    (m_entry = "script" /\ m_qualify > 0 /\ m_written /\ m_response = <<"s">>) =>
        (m_pc \in {"generator", "done"} /\ "fatal" \notin m_said)

====
